---- MODULE Spec2Model ----
(***************************************************************************)
(* Verification model of the crawler runtime (crates/runtime).             *)
(*                                                                         *)
(* Part 1: challenge subsystem -- ChallengeManager (challenge/manager.rs)  *)
(*         and CredentialsCache / ChallengeCredentials                     *)
(*         (challenge/handler.rs).                                         *)
(* Part 2: field extractor driver -- ExtractEngine (extractor/engine.rs).  *)
(* Part 3: HTTP client -- HttpClient::execute_with_retry (http/client.rs). *)
(* Part 4: pager -- Pager (flow/pager.rs).                                 *)
(* Part 5: challenge detectors -- detect_cloudflare, detect_custom         *)
(*         (challenge/detector.rs).                                        *)
(* Part 6: flow variables -- FlowContext (context/flow.rs), SetVarExecutor *)
(*         and VarExecutor (extractor/selector/set_var.rs, var.rs).        *)
(* Part 7: rule validation -- RuleValidator (src/runtime/validation.rs).   *)
(* Part 8: layered HTTP configuration -- HttpConfig (http/config.rs,       *)
(*         config.rs).                                                     *)
(* Part 9: search flow -- SearchFlowExecutor (flow/search.rs).             *)
(* Part 10: retry handler -- handle_retry (challenge/handler.rs).          *)
(* Part 11: the lock of the credential cache under concurrent handle calls *)
(*         (challenge/manager.rs, challenge/handler.rs).                   *)
(***************************************************************************)
EXTENDS Integers, Sequences, FiniteSets, TLC

\* ------------------------------------------------------------------------
\* Bounds of the model
\* ------------------------------------------------------------------------
MaxTime == 2          \* the clock runs from 0 to MaxTime (whole seconds)
MaxTtl == 1           \* cache_duration / ttl_seconds range over 0..MaxTtl
MaxAttempts == 2      \* config.max_attempts ranges over 0..MaxAttempts
MaxRetries == 2       \* HttpConfig.retry_count ranges over 0..MaxRetries
MaxPage == 7          \* page numbers (u32) are scaled to 0..MaxPage: MaxPage
                      \* stands for u32::MAX, arithmetic is modulo MaxPage + 1

None == "None"

\* Option<u32> / Option<Instant>: the empty sequence is None, <<x>> is Some(x)
NoneNum == << >>
Some(x) == <<x>>
OptionOf(S) == {NoneNum} \cup {Some(x) : x \in S}

\* ========================================================================
\* Part 2: field extractor driver (values, steps, ExtractEngine)
\* ========================================================================

\* ---- serde_json::Value ---------------------------------------------------

JNone == [jt |-> "none", s |-> "", items |-> << >>]
JNull == [jt |-> "null", s |-> "", items |-> << >>]
JString(x) == [jt |-> "string", s |-> x, items |-> << >>]
JNumber(x) == [jt |-> "number", s |-> x, items |-> << >>]
JArray(xs) == [jt |-> "array", s |-> "", items |-> xs]

\* ---- ExtractValue --------------------------------------------------------

VNull == [kind |-> "Null", s |-> "", items |-> << >>, json |-> JNone]
VString(x) == [kind |-> "String", s |-> x, items |-> << >>, json |-> JNone]
VHtml(x) == [kind |-> "Html", s |-> x, items |-> << >>, json |-> JNone]
VArray(xs) == [kind |-> "Array", s |-> "", items |-> xs, json |-> JNone]
VJson(j) == [kind |-> "Json", s |-> "", items |-> << >>, json |-> j]

\* ExtractValue::is_empty
is_empty(v) ==
    CASE v.kind = "String" -> v.s = ""
      [] v.kind = "Json" /\ v.json.jt = "null" -> TRUE
      [] v.kind = "Json" /\ v.json.jt = "string" -> v.json.s = ""
      [] v.kind = "Json" /\ v.json.jt = "array" -> v.json.items = << >>
      [] v.kind = "Array" -> v.items = << >>
      [] v.kind = "Null" -> TRUE
      [] OTHER -> FALSE

\* ExtractValue::from_json
RECURSIVE from_json(_)
from_json(j) ==
    CASE j.jt = "string" -> VString(j.s)
      [] j.jt = "array" -> VArray([i \in 1..Len(j.items) |-> from_json(j.items[i])])
      [] OTHER -> VJson(j)

\* ---- Result<SharedValue> -------------------------------------------------

Ok(v) == [ok |-> TRUE, value |-> v, err |-> None]
Err(e) == [ok |-> FALSE, value |-> VNull, err |-> e]

\* ---- steps ----------------------------------------------------------------

StepIndex(i) == [op |-> "Index", idx |-> i]
StepUseComponent == [op |-> "UseComponent", idx |-> 0]
StepScriptUrl == [op |-> "Script", idx |-> 0]
StepXpath == [op |-> "Xpath", idx |-> 0]

\* IndexExecutor::execute with IndexStep::Single(idx); a negative position
\* wraps around as usize and is then out of bounds
IndexExecutor_execute(idx, v) ==
    IF v.kind = "Array"
    THEN LET index_pos == IF idx < 0 THEN Len(v.items) + idx ELSE idx
         IN  IF index_pos >= 0 /\ index_pos < Len(v.items)
             THEN Ok(v.items[index_pos + 1])
             ELSE Err("Extraction")
    ELSE Err("Extraction")

\* StepExecutorFactory::execute
\*   UseComponent: the placeholder executor hands its input through
\*   Script: a script whose source is a URL cannot be loaded
\*   Xpath: not supported in this context
StepExecutorFactory_execute(step, v) ==
    CASE step.op = "Index" -> IndexExecutor_execute(step.idx, v)
      [] step.op = "UseComponent" -> Ok(v)
      [] step.op = "Script" -> Err("ScriptRuntime")
      [] OTHER -> Err("Extraction")

\* ExtractEngine::execute_steps: thread the value through the steps, stop
\* at the first error
RECURSIVE execute_steps(_, _)
execute_steps(steps, v) ==
    IF steps = << >> THEN Ok(v)
    ELSE LET r == StepExecutorFactory_execute(Head(steps), v)
         IN  IF r.ok THEN execute_steps(Tail(steps), r.value) ELSE r

\* ---- ExtractEngine::extract_field -----------------------------------------

NoDefault == JNone
NoFound == [found |-> FALSE, value |-> VNull, consulted |-> 0]

\* the fallback loop that feeds each pipeline the previous pipeline's result
RECURSIVE try_fallbacks_chained(_, _, _)
try_fallbacks_chained(fallback, v, i) ==
    IF i > Len(fallback) THEN [NoFound EXCEPT !.consulted = Len(fallback)]
    ELSE LET r == execute_steps(fallback[i], v)
         IN  IF r.ok /\ ~is_empty(r.value)
             THEN [found |-> TRUE, value |-> r.value, consulted |-> i]
             ELSE try_fallbacks_chained(fallback, IF r.ok THEN r.value ELSE v, i + 1)

\* for fallback_steps in fallback { if let Ok(v) = execute_steps(..) &&
\* !v.is_empty() { return Ok(v) } }, from the i-th pipeline on; consulted
\* counts the pipelines that were executed
RECURSIVE try_fallbacks(_, _, _)
try_fallbacks(fallback, v, i) ==
    IF i > Len(fallback) THEN [NoFound EXCEPT !.consulted = Len(fallback)]
    ELSE LET r == execute_steps(fallback[i], v)
         IN  IF r.ok /\ ~is_empty(r.value)
             THEN [found |-> TRUE, value |-> r.value, consulted |-> i]
             ELSE try_fallbacks(fallback, v, i + 1)

\* the returned Result together with where it came from
Outcome(r, source, consulted) ==
    [ok |-> r.ok, value |-> r.value, err |-> r.err,
     source |-> source, consulted |-> consulted]

NoOut == [ok |-> FALSE, value |-> VNull, err |-> None, source |-> None, consulted |-> 0]

\* the cascade that gives up with the error right away
cascade_none(extractor, v, e) == Outcome(Err(e), "error", 0)

\* the cascade that reports Extraction whatever went wrong
cascade_extraction(extractor, v, e) ==
    LET fb == IF extractor.fallback # NoneNum
              THEN try_fallbacks(extractor.fallback[1], v, 1) ELSE NoFound
    IN  IF fb.found THEN Outcome(Ok(fb.value), "fallback", fb.consulted)
        ELSE IF extractor.default # NoDefault
        THEN Outcome(Ok(from_json(extractor.default)), "default", fb.consulted)
        ELSE Outcome(Err("Extraction"), "error", fb.consulted)

\* fallbacks, then the default, then the error e: the tail shared by the
\* Ok-but-empty arm (e = Extraction) and the Err(e) arm
cascade(extractor, v, e) ==
    LET fb == IF extractor.fallback # NoneNum
              THEN try_fallbacks(extractor.fallback[1], v, 1) ELSE NoFound
    IN  IF fb.found THEN Outcome(Ok(fb.value), "fallback", fb.consulted)
        ELSE IF extractor.default # NoDefault
        THEN Outcome(Ok(from_json(extractor.default)), "default", fb.consulted)
        ELSE Outcome(Err(e), "error", fb.consulted)

\* ExtractEngine::extract_field
extract_field(extractor, v) ==
    LET primary == execute_steps(extractor.steps, v)
    IN  IF primary.ok
        THEN IF is_empty(primary.value) /\ ~extractor.nullable
             THEN cascade(extractor, v, "Extraction")
             ELSE Outcome(Ok(primary.value), "primary", 0)
        ELSE cascade(extractor, v, primary.err)

\* ---- inputs of the model ---------------------------------------------------

MaxFallbacks == 2     \* a FieldExtractor has at most MaxFallbacks fallbacks

Pipelines ==
    { << >>,
      <<StepUseComponent>>,
      <<StepIndex(0)>>,
      <<StepIndex(1)>>,
      <<StepIndex(-1)>>,
      <<StepIndex(0), StepIndex(0)>>,
      <<StepScriptUrl>>,
      <<StepXpath>> }

FallbackPipelines ==
    { <<StepIndex(0)>>, <<StepIndex(1)>>, <<StepIndex(0), StepIndex(0)>>,
      <<StepScriptUrl>> }

RECURSIVE SeqsUpTo(_, _)
SeqsUpTo(S, n) ==
    IF n = 0 THEN {<< >>}
    ELSE SeqsUpTo(S, n - 1) \cup
         {Append(q, x) : q \in {q \in SeqsUpTo(S, n - 1) : Len(q) = n - 1}, x \in S}

Defaults == {NoDefault, JString(""), JString("anon"), JArray(<< >>), JNumber("0")}

FieldExtractors ==
    [steps : Pipelines,
     fallback : OptionOf(SeqsUpTo(FallbackPipelines, MaxFallbacks)),
     default : Defaults,
     nullable : BOOLEAN]

Inputs ==
    { VArray(<<VString("a"), VString("")>>),
      VArray(<<VArray(<<VString("b")>>), VNull>>),
      VArray(<<VString(""), VString("c")>>),
      VHtml("<p>") }

\* the extractor of a manager that extracts nothing
IdleExtractor ==
    [steps |-> << >>, fallback |-> NoneNum, default |-> NoDefault, nullable |-> FALSE]

\* ========================================================================
\* Part 1: challenge subsystem
\* ========================================================================

VARIABLES
    now,         \* monotonic clock (std::time::Instant), in seconds
    cache,       \* CredentialsCache.cache : domain -> credentials (None = absent)
    config,      \* ChallengeManager.config
    pc,          \* per task: position inside ChallengeManager::handle
    url,         \* per task: the url argument of the running call
    attempt,     \* per task: loop variable of the attempt loop
    last_error,  \* per task: local last_error of handle
    creds,       \* per task: credentials returned by the handler, not yet cached
    result,      \* per task: value returned by the finished call
    calls,       \* per task: number of handler invocations made by the call
    op,          \* per task: entry point of the call (handle / detect_and_handle / detect)
    path,        \* per task: how the call was answered (cache / handler / ...)
    resp,        \* per task: the response argument of the running call
    finished,    \* per task: number of handler invocations that have returned
    lastOutcome, \* per task: "ok" or the error of the latest returned invocation
    last_set,    \* per domain: the credentials of the latest set(domain, ..), if
                 \* they were not expired when set and no remove for the domain
                 \* came later; NoCreds otherwise (history variable)
    issued,      \* per domain: credentials returned by the handle call that
                 \* wrote the current cache entry (history variable)
    getResult,   \* outcome of the latest direct CredentialsCache::get
    lookup       \* the latest get_cached_credentials / clear_cached_credentials
                 \* call: its name, its URL and what it returned

\* Part 2 state: one run of ExtractEngine::extract_field
VARIABLES
    fe,          \* the FieldExtractor argument
    input,       \* the input value argument
    out          \* the returned Result (NoOut before the call)

extractVars == <<fe, input, out>>

\* Part 3 state: an HttpClient and one logical request running through
\* execute_with_retry
VARIABLES
    client_config,    \* HttpClient.config (retry_count, retry_delay)
    request,          \* the RequestBuilder handed to execute_with_retry
    http_pc,          \* "idle", "loop" (between two attempts) or "done"
    http_attempt,     \* the loop variable `attempt`
    http_last_error,  \* the local last_error
    sends,            \* number of req.send() calls made for the request
    sleeps,           \* number of tokio::time::sleep calls made for the request
    http_result       \* the returned Result (NoHttpResult before the return)

httpVars == <<client_config, request, http_pc, http_attempt, http_last_error,
              sends, sleeps, http_result>>

\* Part 4 state: the Pager a caller holds and its latest call on it
VARIABLES
    pager,            \* the Pager held by the caller
    pager_call,       \* the latest call: operation, argument, receiver, return
    cursor_used       \* whether the held pager was returned by next under Cursor
                      \* pagination and no cursor was recorded on it since
                      \* (history variable)

pagerVars == <<pager, pager_call, cursor_used>>

\* Part 5 state: one detector shown one response
VARIABLES
    detector,         \* the ChallengeDetector
    response,         \* the ResponseContext
    detection_result  \* the DetectionResult (NoDetection before the call)

detectorVars == <<detector, response, detection_result>>

\* Part 6 state: the variables of one flow and the latest step run in it
VARIABLES
    flow_data,        \* FlowContext.data : name -> serde_json::Value
    step_call         \* the latest SetVar / Var step: name, input, output

flowVars == <<flow_data, step_call>>

\* Part 7 state: one rule and one run of its validation
VARIABLES
    rule,             \* the CrawlerRule (components and flow pipelines)
    errors,           \* RuleValidator.errors, as the set of errors pushed
    validated         \* validate_all has run

validationVars == <<rule, errors, validated>>

\* Part 8 state: the layers of HTTP configuration and their merge
VARIABLES
    layers,           \* the configuration layers, earliest first
    effective,        \* the merge of the first merge_n layers
    merge_n           \* how many layers the merge has taken in

mergeVars == <<layers, effective, merge_n>>

\* Part 9 state: a SearchFlowExecutor and one run of execute
VARIABLES
    search_flow,      \* SearchFlowExecutor.flow (list, fields, pagination)
    search_page,      \* what the request and the list extraction gave
    search_response   \* the returned Result<SearchResponse>

searchVars == <<search_flow, search_page, search_response>>

\* Part 10 state: one run of the retry handler (handle_retry)
VARIABLES
    retry_handler,    \* the RetryHandler configuration
    ctx_http_client,  \* whether HandlerContext.http_client is Some
    retry_pc,         \* "idle", "polling" (inside the for loop) or "done"
    retry_attempt,    \* the loop variable `attempt`
    retry_delay,      \* the local `delay`, in milliseconds
    polls,            \* GET requests sent so far (history variable)
    poll_response,    \* what the latest poll gave
    retry_result      \* the returned Result<ChallengeCredentials>

retryVars == <<retry_handler, ctx_http_client, retry_pc, retry_attempt, retry_delay,
               polls, poll_response, retry_result>>

\* Part 11 state: the RwLock inside the CredentialsCache and the handle
\* calls of two concurrent flow invocations
VARIABLES
    guarded,          \* the HashMap behind the lock: domain -> credentials
    rw_readers,       \* the invocations holding a read guard
    rw_writer,        \* the invocations holding the write guard (at most one)
    inv_pc,           \* per invocation: where its handle call stands
    inv_url,          \* per invocation: the url argument
    inv_resp,         \* per invocation: the response argument
    inv_attempt,      \* per invocation: the loop variable `attempt`
    inv_creds,        \* per invocation: the credentials the handler returned
    inv_result        \* per invocation: "Ok" or "Err" once handle returned

lockVars == <<guarded, rw_readers, rw_writer, inv_pc, inv_url, inv_resp, inv_attempt,
              inv_creds, inv_result>>

\* the variables of the later parts
laterVars == <<httpVars, pagerVars, detectorVars, flowVars, validationVars, mergeVars,
              searchVars,
              retryVars,
              lockVars>>

\* the variables that no operation of the challenge subsystem touches
nonChallengeVars == <<extractVars, laterVars>>

Tasks == {"t1"}

\* URLs a caller may pass; the last one has no parsable host.
Urls == {"https://a.test/x", "https://a.test/y", "invalid"}

\* those with a host
HostUrls == {u \in Urls : u # "invalid"}

\* The credential payload (cookies, headers, extra) as one opaque token;
\* "empty" is the payload of ChallengeCredentials::new().
CredIds == {"k1", "k2"}
Payloads == CredIds \cup {"empty"}

DetectorKinds == {"Cloudflare", "Recaptcha"}
HandlerKinds == {"Webview", "Retry", "Cookie", "External", "Script"}

\* A response is abstracted to the set of detectors whose detect() reports
\* a challenge on it.
Responses == SUBSET DetectorKinds

\* ---- ChallengeCredentials ---------------------------------------------

\* ChallengeCredentials::new(): empty payload, obtained_at = Instant::now()
ChallengeCredentials_new(t) ==
    [data |-> "empty", obtained_at |-> Some(t), ttl_seconds |-> NoneNum]

with_payload(c, d) == [c EXCEPT !.data = d]

\* with_ttl that drops the TTL
with_ttl_dropped(c, ttl_seconds) == c

with_ttl(c, ttl_seconds) == [c EXCEPT !.ttl_seconds = Some(ttl_seconds)]

\* is_expired with the comparison turned into >=
is_expired_ge(c, t) ==
    IF c.obtained_at # NoneNum /\ c.ttl_seconds # NoneNum
    THEN (t - c.obtained_at[1]) >= c.ttl_seconds[1]
    ELSE FALSE

\* is_expired, evaluated when the clock reads t
is_expired(c, t) ==
    IF c.obtained_at # NoneNum /\ c.ttl_seconds # NoneNum
    THEN (t - c.obtained_at[1]) > c.ttl_seconds[1]
    ELSE FALSE

\* ---- CredentialsCache --------------------------------------------------

\* Keys of the cache: the hosts of Urls, and the raw string of a URL without host
Domains == {"a.test", "invalid"}

\* The value standing for "no credentials" (Option::None)
NoCreds == [data |-> None, obtained_at |-> NoneNum, ttl_seconds |-> NoneNum]

NoLookup == [op |-> None, url |-> None, value |-> NoCreds]

CredentialsCache_new == [d \in Domains |-> NoCreds]

\* get without the expiry test
cache_get_unchecked(c, d, t) == c[d]

\* CredentialsCache::get at clock reading t
cache_get(c, d, t) ==
    IF c[d] = NoCreds THEN NoCreds
    ELSE IF is_expired(c[d], t) THEN NoCreds ELSE c[d]

\* a set that empties the entries of the other domains
cache_set_alone(c, d, cr) == [x \in DOMAIN c |-> IF x = d THEN cr ELSE NoCreds]

\* a set that writes the credentials under every domain
cache_set_every(c, d, cr) == [x \in DOMAIN c |-> cr]

\* CredentialsCache::set
cache_set(c, d, cr) == [c EXCEPT ![d] = cr]

cache_remove(c, d) == [c EXCEPT ![d] = NoCreds]

cleanup_expired(c, t) ==
    [d \in Domains |-> IF c[d] # NoCreds /\ is_expired(c[d], t) THEN NoCreds ELSE c[d]]

\* ---- ChallengeManager ---------------------------------------------------

\* Url::parse(url).ok().and_then(host_str)
extract_domain(u) ==
    CASE u = "https://a.test/x" -> "a.test"
      [] u = "https://a.test/y" -> "a.test"
      [] OTHER -> None

\* let domain = extract_domain(url).unwrap_or_else(|| url.to_string())
cache_key(u) == IF extract_domain(u) # None THEN extract_domain(u) ELSE u

not_detected == [detected |-> FALSE, challenge_type |-> None, extra_info |-> None]

\* the extra_info a detector attaches to its report (with_info): the ray id
\* for Cloudflare, the site key for reCAPTCHA and hCaptcha, nothing for Custom
detector_extra(k) ==
    CASE k = "Cloudflare" -> "cf_ray"
      [] k \in {"Recaptcha", "Hcaptcha"} -> "site_key"
      [] OTHER -> None

\* detector.detect(response): the detector of kind k reports on response r
detector_detect(k, r) ==
    IF k \in r
    THEN [detected |-> TRUE, challenge_type |-> k, extra_info |-> detector_extra(k)]
    ELSE not_detected

RECURSIVE last_detected(_, _)
\* a loop over the detectors that keeps the report of the last one
last_detected(ds, r) ==
    IF ds = << >> THEN not_detected
    ELSE IF last_detected(Tail(ds), r).detected
         THEN last_detected(Tail(ds), r)
         ELSE detector_detect(Head(ds), r)

RECURSIVE first_detected(_, _)
\* the loop of ChallengeManager::detect: the first report wins
first_detected(ds, r) ==
    IF ds = << >> THEN not_detected
    ELSE IF detector_detect(Head(ds), r).detected
         THEN detector_detect(Head(ds), r)
         ELSE first_detected(Tail(ds), r)

\* detect without the enabled test
detect_always(cfg, r) == first_detected(cfg.detectors, r)

\* ChallengeManager::detect
detect(cfg, r) ==
    IF ~cfg.enabled THEN not_detected ELSE first_detected(cfg.detectors, r)

\* ---- ChallengeHandlerExt::handle ----------------------------------------

HandlerOk(c) == [ok |-> TRUE, creds |-> c, err |-> None]
HandlerErr(e) == [ok |-> FALSE, creds |-> NoCreds, err |-> e]

\* handle_webview: provider error, close reasons, or harvested cookies
handle_webview(t) ==
    {HandlerErr(e) : e \in {"WebViewUnavailable", "WebViewTimeout",
                            "WebViewUserClosed", "ChallengeFailed"}}
    \cup {HandlerOk(with_payload(ChallengeCredentials_new(t), k)) : k \in CredIds}

\* handle_retry: no client, transport error, budget exhausted, or success
\* with credentials that carry nothing
handle_retry(t) ==
    {HandlerErr(e) : e \in {"ChallengeFailed", "HttpRequest", "ChallengeMaxAttempts"}}
    \cup {HandlerOk(ChallengeCredentials_new(t))}

\* handle_cookie
handle_cookie(t) ==
    {HandlerErr("ChallengeFailed")}
    \cup {HandlerOk(with_payload(ChallengeCredentials_new(t), k)) : k \in CredIds}

\* handle_external
handle_external(t) ==
    {HandlerErr(e) : e \in {"ChallengeFailed", "HttpRequest", "ExecutionTimeout"}}
    \cup {HandlerOk(with_payload(ChallengeCredentials_new(t), k)) : k \in CredIds}

\* handle_script: not implemented, always fails
handle_script(t) == {HandlerErr("ChallengeFailed")}

\* impl ChallengeHandlerExt for ChallengeHandler: the results one handler
\* invocation that completes at clock reading t can produce
handler_handle(h, t) ==
    CASE h = "Webview" -> handle_webview(t)
      [] h = "Retry" -> handle_retry(t)
      [] h = "Cookie" -> handle_cookie(t)
      [] h = "External" -> handle_external(t)
      [] OTHER -> handle_script(t)

\* ---- results of the manager's entry points ------------------------------

RetOk(c) == [tag |-> "Ok", creds |-> c, err |-> None, detection |-> not_detected]
RetErr(e) == [tag |-> "Err", creds |-> NoCreds, err |-> e, detection |-> not_detected]
RetNone == [tag |-> "OkNone", creds |-> NoCreds, err |-> None, detection |-> not_detected]
RetDetection(d) == [tag |-> "Detection", creds |-> NoCreds, err |-> None, detection |-> d]
NoResult == [tag |-> None, creds |-> NoCreds, err |-> None, detection |-> not_detected]

\* the exhaustion error without regard to last_error
exhausted_error_fixed(le) == "ChallengeMaxAttempts"

\* Err(last_error.unwrap_or(ChallengeMaxAttempts { .. }))
exhausted_error(le) == IF le # None THEN le ELSE "ChallengeMaxAttempts"

\* detect_and_handle wraps the credentials of handle in Some
wrap(o, r) ==
    IF o = "detect_and_handle" /\ r.tag = "Ok" THEN [r EXCEPT !.tag = "OkSome"] ELSE r

vars == <<now, cache, config, pc, url, attempt, last_error, creds, result,
          calls, op, path, resp, finished, lastOutcome, issued, last_set, getResult, lookup,
          fe, input, out,
          laterVars>>

Configs ==
    [enabled : BOOLEAN,
     detectors : {<<"Recaptcha", "Cloudflare">>},
     handler : HandlerKinds,
     cache_duration : OptionOf(0..MaxTtl),
     max_attempts : 0..MaxAttempts]

\* ---- Part 3 values: HttpConfig, RequestBuilder, Result ------------------

\* HttpConfig, reduced to the two options execute_with_retry reads
HttpConfig_default == [retry_count |-> NoneNum, retry_delay |-> NoneNum]

NoRequest == [method |-> None, url |-> None, body |-> None]

NoHttpResult == [tag |-> None, kind |-> None, status |-> 0, retries |-> 0, cause |-> None]

\* before any entry point of the client has been called
IdleHttp ==
    /\ request = NoRequest
    /\ http_pc = "idle"
    /\ http_attempt = 0
    /\ http_last_error = None
    /\ sends = 0
    /\ sleeps = 0
    /\ http_result = NoHttpResult

\* ---- Part 4 values: Pagination, SearchPagerState, Pager -----------------

\* Option<Pagination>: "Absent" is Option::None, "NoneVariant" is
\* Pagination::None
Paginations == {"Absent", "PageNumber", "Offset", "Cursor", "NoneVariant"}

\* SearchPagerState::new(keyword, page)
SearchPagerState_new(keyword, page) ==
    [keyword |-> keyword, page |-> page, cursor |-> None]

\* Pager::new(runtime, pagination, state)
Pager_new(pagination, state) ==
    [pagination |-> pagination, state |-> state, next_cursor |-> None]

NoPager == [pagination |-> None, state |-> SearchPagerState_new(None, 0),
            next_cursor |-> None]

NoPagerCall == [op |-> None, arg |-> 0, self |-> NoPager,
                ret |-> [tag |-> "NoCall", pager |-> NoPager, err |-> None]]

\* a pager nobody has called yet
IdlePager ==
    /\ pager = Pager_new("Absent", SearchPagerState_new("kw", 1))
    /\ pager_call = NoPagerCall
    /\ cursor_used = FALSE

\* ---- Part 5 values: ChallengeDetector, ResponseContext, DetectionResult --

\* Option<Vec<..>> / Option<HashMap<..>> / Option<String>: as for numbers,
\* the empty sequence is None and <<x>> is Some(x)
NoneVal == << >>

\* HashMap::new()
EmptyMap == [k \in {} |-> None]

\* CloudflareDetector::default(), in the record shape shared by the
\* detector variants (the fields of the other variant are None)
CloudflareDetector_default ==
    [kind |-> "Cloudflare", extra_patterns |-> NoneVal, status_codes |-> NoneVal,
     headers |-> NoneVal, url_pattern |-> NoneVal, body_patterns |-> NoneVal]

\* ResponseContext::new(200, HashMap::new(), "", "")
EmptyResponse ==
    [status_code |-> 200, headers |-> EmptyMap, body |-> {}, final_url |-> ""]

NoDetection ==
    [called |-> FALSE, detected |-> FALSE, challenge_type |-> None,
     extra_info |-> EmptyMap]

\* no detector has been asked yet
IdleDetector ==
    /\ detector = CloudflareDetector_default
    /\ response = EmptyResponse
    /\ detection_result = NoDetection

\* ---- Part 6 values ------------------------------------------------------

NoStepCall ==
    [step |-> None, name |-> None, input |-> VNull,
     output |-> [ok |-> FALSE, value |-> VNull, err |-> "NoCall"]]

\* FlowContext::new: no flow variable, no step run
IdleFlow ==
    /\ flow_data = EmptyMap
    /\ step_call = NoStepCall

\* ---- Part 7 values ------------------------------------------------------

\* create_minimal_rule(): no components, flows without steps
minimal_rule ==
    [components |-> NoneVal, login |-> NoneVal, list |-> NoneVal,
     detail |-> << >>, search |-> << >>]

\* RuleValidator::new on a rule nobody has validated
IdleValidation ==
    /\ rule = minimal_rule
    /\ errors = {}
    /\ validated = FALSE

\* HttpConfig::default(): every option None
HttpConfig_none ==
    [user_agent |-> NoneVal, timeout |-> NoneVal, proxy |-> NoneVal,
     follow_redirects |-> NoneVal, max_redirects |-> NoneVal,
     connect_timeout |-> NoneVal, verify_ssl |-> NoneVal,
     request_delay |-> NoneVal, max_concurrent |-> NoneVal,
     retry_count |-> NoneVal, retry_delay |-> NoneVal,
     request |-> NoneVal, response |-> NoneVal]

\* no layer has been given and nothing merged
IdleMerge ==
    /\ layers = << >>
    /\ effective = HttpConfig_none
    /\ merge_n = 0

\* a SearchFlow without pagination whose extractors have no steps
SearchFlow_plain ==
    [title |-> IdleExtractor, url |-> IdleExtractor, pagination |-> NoneVal]

NoSearchPage == [http |-> None, html |-> VNull, list_result |-> Err(None)]

NoSearchResponse ==
    [tag |-> None, err |-> None, items |-> << >>, has_next |-> FALSE, raw_items |-> << >>]

\* before execute is called
IdleSearch ==
    /\ search_flow = SearchFlow_plain
    /\ search_page = NoSearchPage
    /\ search_response = NoSearchResponse

RetryHandler_zero == [max_retries |-> 0, delay_ms |-> 0, backoff_factor |-> NoneNum]

NoPollResponse == [kind |-> None, status |-> 0, body |-> {}]

NoRetryResult == [ok |-> FALSE, creds |-> NoCreds, err |-> None]

\* before handle_retry is called
IdleRetry ==
    /\ retry_handler = RetryHandler_zero
    /\ ctx_http_client = FALSE
    /\ retry_pc = "idle"
    /\ retry_attempt = 0
    /\ retry_delay = 0
    /\ polls = 0
    /\ poll_response = NoPollResponse
    /\ retry_result = NoRetryResult

Invocations == {"i1", "i2"}

\* no handle call is running
IdleLock ==
    /\ guarded = CredentialsCache_new
    /\ rw_readers = {}
    /\ rw_writer = {}
    /\ inv_pc = [i \in Invocations |-> "idle"]
    /\ inv_url = [i \in Invocations |-> None]
    /\ inv_resp = [i \in Invocations |-> {}]
    /\ inv_attempt = [i \in Invocations |-> 0]
    /\ inv_creds = [i \in Invocations |-> NoCreds]
    /\ inv_result = [i \in Invocations |-> None]

\* the later parts at rest
InitLater ==
    /\ client_config = HttpConfig_default /\ IdleHttp
    /\ IdlePager
    /\ IdleDetector
    /\ IdleFlow
    /\ IdleValidation
    /\ IdleMerge
    /\ IdleSearch
    /\ IdleRetry
    /\ IdleLock

\* ChallengeManager::new / CredentialsCache::new: empty cache, no call running
InitManagerVars ==
    /\ now = 0
    /\ cache = CredentialsCache_new
    /\ pc = [t \in Tasks |-> "idle"]
    /\ url = [t \in Tasks |-> None]
    /\ attempt = [t \in Tasks |-> 0]
    /\ last_error = [t \in Tasks |-> None]
    /\ creds = [t \in Tasks |-> NoCreds]
    /\ result = [t \in Tasks |-> NoResult]
    /\ calls = [t \in Tasks |-> 0]
    /\ op = [t \in Tasks |-> None]
    /\ path = [t \in Tasks |-> None]
    /\ resp = [t \in Tasks |-> {}]
    /\ finished = [t \in Tasks |-> 0]
    /\ lastOutcome = [t \in Tasks |-> None]
    /\ issued = [d \in Domains |-> NoCreds]
    /\ last_set = [d \in Domains |-> NoCreds]
    /\ getResult = [domain |-> None, value |-> NoCreds]
    /\ lookup = NoLookup

InitManager ==
    /\ InitManagerVars
    /\ fe = IdleExtractor /\ input = VNull /\ out = NoOut
    /\ InitLater

InitChallenge ==
    /\ config \in Configs
    /\ InitManager

\* The call of task t (entered through o) returns r, answered along path
\* p; the locals of handle die with the call.
Finish(t, o, r, p) ==
    /\ pc' = [pc EXCEPT ![t] = "done"]
    /\ result' = [result EXCEPT ![t] = wrap(o, r)]
    /\ path' = [path EXCEPT ![t] = p]
    /\ attempt' = [attempt EXCEPT ![t] = 0]
    /\ last_error' = [last_error EXCEPT ![t] = None]
    /\ creds' = [creds EXCEPT ![t] = NoCreds]

\* ChallengeManager::handle up to its first suspension inside the handler:
\* cache lookup, detection, start of the attempt loop.  The lookup and the
\* repeated is_expired test run without a suspension in between, so both
\* read the same clock value.
HandleBody(t, o, u, r) ==
    LET domain == cache_key(u)
        cached == cache_get(cache, domain, now)
        detection == detect(config, r)
    IN  /\ url' = [url EXCEPT ![t] = u]
        /\ resp' = [resp EXCEPT ![t] = r]
        /\ UNCHANGED <<now, cache, config, finished, lastOutcome, issued, last_set, getResult, lookup>>
        /\ IF cached # NoCreds /\ ~is_expired(cached, now)
           THEN /\ Finish(t, o, RetOk(cached), "cache")
                /\ calls' = [calls EXCEPT ![t] = 0]
           ELSE IF ~detection.detected
           THEN /\ Finish(t, o, RetOk(ChallengeCredentials_new(now)), "nochallenge")
                /\ calls' = [calls EXCEPT ![t] = 0]
           ELSE IF config.max_attempts < 1
           THEN /\ Finish(t, o, RetErr(exhausted_error(None)), "exhausted")
                /\ calls' = [calls EXCEPT ![t] = 0]
           ELSE /\ pc' = [pc EXCEPT ![t] = "handling"]
                /\ attempt' = [attempt EXCEPT ![t] = 1]
                /\ calls' = [calls EXCEPT ![t] = 1]
                /\ UNCHANGED <<last_error, creds, result, path>>

\* A caller invokes ChallengeManager::handle(url, response).
Handle(t, u, r) ==
    /\ UNCHANGED nonChallengeVars
    /\ pc[t] = "idle"
    /\ op' = [op EXCEPT ![t] = "handle"]
    /\ HandleBody(t, "handle", u, r)

\* A caller invokes ChallengeManager::detect_and_handle(url, response).
DetectAndHandle(t, u, r) ==
    /\ UNCHANGED nonChallengeVars
    /\ pc[t] = "idle"
    /\ op' = [op EXCEPT ![t] = "detect_and_handle"]
    /\ IF ~detect(config, r).detected
       THEN /\ Finish(t, "detect_and_handle", RetNone, "notdetected")
            /\ url' = [url EXCEPT ![t] = u]
            /\ resp' = [resp EXCEPT ![t] = r]
            /\ UNCHANGED <<now, cache, config, calls, finished, lastOutcome, issued, last_set, getResult, lookup>>
       ELSE HandleBody(t, "detect_and_handle", u, r)

\* A caller invokes ChallengeManager::detect(response).
Detect(t, r) ==
    /\ UNCHANGED nonChallengeVars
    /\ pc[t] = "idle"
    /\ op' = [op EXCEPT ![t] = "detect"]
    /\ Finish(t, "detect", RetDetection(detect(config, r)), "detect")
    /\ resp' = [resp EXCEPT ![t] = r]
    /\ UNCHANGED <<now, cache, config, url, calls, finished, lastOutcome, issued, last_set, getResult, lookup>>

\* an attempt loop that runs one iteration too many
has_next_attempt_off_by_one(a, max_attempts) == a <= max_attempts

\* for attempt in 1..=max_attempts: another iteration follows iteration a
has_next_attempt(a, max_attempts) == a < max_attempts

\* The running handler invocation of task t completes with outcome o.
\* On failure the loop records the error and either starts the next
\* attempt at once or leaves the loop.
HandlerReturn(t, o) ==
    /\ UNCHANGED nonChallengeVars
    /\ pc[t] = "handling"
    /\ o \in handler_handle(config.handler, now)
    /\ finished' = [finished EXCEPT ![t] = @ + 1]
    /\ lastOutcome' = [lastOutcome EXCEPT ![t] = IF o.ok THEN "ok" ELSE o.err]
    /\ UNCHANGED <<now, cache, config, url, op, resp, issued, last_set, getResult, lookup>>
    /\ IF o.ok
       THEN /\ creds' = [creds EXCEPT ![t] = o.creds]
            /\ pc' = [pc EXCEPT ![t] = "storing"]
            /\ UNCHANGED <<attempt, last_error, calls, result, path>>
       ELSE IF has_next_attempt(attempt[t], config.max_attempts)
       THEN /\ last_error' = [last_error EXCEPT ![t] = o.err]
            /\ attempt' = [attempt EXCEPT ![t] = attempt[t] + 1]
            /\ calls' = [calls EXCEPT ![t] = calls[t] + 1]
            /\ UNCHANGED <<pc, creds, result, path>>
       ELSE /\ Finish(t, op[t], RetErr(exhausted_error(o.err)), "exhausted")
            /\ UNCHANGED calls

\* history: what a set of credentials c at clock reading t records
set_unexpired(c, t) == IF is_expired(c, t) THEN NoCreds ELSE c

\* The Ok arm of the attempt loop: cache the credentials (with the
\* configured TTL) under the domain and return the handler's credentials.
Store(t) ==
    /\ UNCHANGED nonChallengeVars
    /\ pc[t] = "storing"
    /\ LET credentials == creds[t]
           stored == IF config.cache_duration # NoneNum
                     THEN with_ttl(credentials, config.cache_duration[1])
                     ELSE credentials
       IN  /\ cache' = cache_set(cache, cache_key(url[t]), stored)
           /\ issued' = [issued EXCEPT ![cache_key(url[t])] = credentials]
           /\ last_set' = [last_set EXCEPT ![cache_key(url[t])] = set_unexpired(stored, now)]
           /\ Finish(t, op[t], RetOk(credentials), "handler")
    /\ UNCHANGED <<now, config, url, calls, op, resp, finished, lastOutcome, getResult, lookup>>

\* The caller takes the result; the task is free for the next call.
Return(t) ==
    /\ UNCHANGED nonChallengeVars
    /\ pc[t] = "done"
    /\ pc' = [pc EXCEPT ![t] = "idle"]
    /\ url' = [url EXCEPT ![t] = None]
    /\ result' = [result EXCEPT ![t] = NoResult]
    /\ calls' = [calls EXCEPT ![t] = 0]
    /\ op' = [op EXCEPT ![t] = None]
    /\ path' = [path EXCEPT ![t] = None]
    /\ resp' = [resp EXCEPT ![t] = {}]
    /\ finished' = [finished EXCEPT ![t] = 0]
    /\ lastOutcome' = [lastOutcome EXCEPT ![t] = None]
    /\ UNCHANGED <<now, cache, config, attempt, last_error, creds, issued, last_set, getResult, lookup>>

\* ---- direct use of the shared CredentialsCache --------------------------

taskVars == <<pc, url, attempt, last_error, creds, result, calls, op, path,
              resp, finished, lastOutcome>>

\* Credentials another holder of the cache may store at clock reading t.
AnyCredentials(t) ==
    [data : {"k1"}, obtained_at : OptionOf(0..t),
     ttl_seconds : OptionOf(0..MaxTtl)]

\* history: an entry that is gone or replaced was not issued by handle
keep_issued(c) == [d \in Domains |-> IF c[d] = cache[d] THEN issued[d] ELSE NoCreds]

\* CredentialsCache::get(domain)
CacheGet(d) ==
    /\ UNCHANGED nonChallengeVars
    /\ getResult' = [domain |-> d, value |-> cache_get(cache, d, now)]
    /\ UNCHANGED lookup
    /\ UNCHANGED <<now, cache, config, taskVars, issued, last_set>>

\* CredentialsCache::set(domain, credentials)
CacheSet(d, c) ==
    /\ UNCHANGED nonChallengeVars
    /\ cache' = cache_set(cache, d, c)
    /\ issued' = keep_issued(cache')
    /\ last_set' = [last_set EXCEPT ![d] = set_unexpired(c, now)]
    /\ UNCHANGED <<now, config, taskVars, getResult, lookup>>

\* CredentialsCache::remove(domain)
CacheRemove(d) ==
    /\ UNCHANGED nonChallengeVars
    /\ cache[d] # NoCreds
    /\ cache' = cache_remove(cache, d)
    /\ issued' = keep_issued(cache')
    /\ last_set' = [last_set EXCEPT ![d] = NoCreds]
    /\ UNCHANGED <<now, config, taskVars, getResult, lookup>>

\* CredentialsCache::cleanup_expired()
CacheCleanupExpired ==
    /\ UNCHANGED nonChallengeVars
    /\ cache' = cleanup_expired(cache, now)
    /\ cache' # cache
    /\ issued' = keep_issued(cache')
    /\ UNCHANGED last_set
    /\ UNCHANGED <<now, config, taskVars, getResult, lookup>>

\* Time passes.
Tick ==
    /\ UNCHANGED nonChallengeVars
    /\ now < MaxTime
    /\ now' = now + 1
    /\ UNCHANGED <<cache, config, taskVars, issued, last_set, getResult, lookup>>

NextChallenge ==
    \/ \E t \in Tasks, u \in HostUrls, r \in Responses : Handle(t, u, r)
    \/ \E t \in Tasks, u \in HostUrls, r \in Responses : DetectAndHandle(t, u, r)
    \/ \E t \in Tasks, r \in Responses : Detect(t, r)
    \/ \E t \in Tasks : \E o \in handler_handle(config.handler, now) : HandlerReturn(t, o)
    \/ \E t \in Tasks : Store(t)
    \/ \E t \in Tasks : Return(t)
    \/ \E d \in Domains : CacheRemove(d)
    \/ CacheCleanupExpired
    \/ Tick

\* The challenge manager with one caller on the URLs of one host, under
\* every configuration; the cache is written by handle and evicted by
\* remove / cleanup_expired.
SpecChallenge == InitChallenge /\ [][NextChallenge]_vars

\* The configuration of default_cloudflare_config(), its one-hour cache
\* duration scaled to the model's clock.
default_cloudflare_config ==
    [enabled |-> TRUE, detectors |-> <<"Cloudflare">>, handler |-> "Webview",
     cache_duration |-> Some(MaxTtl), max_attempts |-> MaxAttempts]

InitCache ==
    /\ config = default_cloudflare_config
    /\ InitManager

NextCache ==
    \/ \E d \in Domains : CacheGet(d)
    \/ \E d \in Domains : \E c \in AnyCredentials(now) : CacheSet(d, c)
    \/ \E d \in Domains : CacheRemove(d)
    \/ CacheCleanupExpired
    \/ Tick

\* The credential cache used directly by any number of holders: every
\* interleaving of get, set, remove and cleanup_expired with the clock.
SpecCache == InitCache /\ [][NextCache]_vars

\* ---- the manager's own access to its cache --------------------------------

\* ChallengeManager::get_cached_credentials(url)
GetCachedCredentials(u) ==
    /\ UNCHANGED nonChallengeVars
    /\ lookup' = [op |-> "get_cached_credentials", url |-> u,
                  value |-> IF extract_domain(u) = None THEN NoCreds
                            ELSE cache_get(cache, extract_domain(u), now)]
    /\ UNCHANGED <<now, cache, config, taskVars, issued, last_set, getResult>>

\* ChallengeManager::clear_cached_credentials(url)
ClearCachedCredentials(u) ==
    /\ UNCHANGED nonChallengeVars
    /\ lookup' = [op |-> "clear_cached_credentials", url |-> u, value |-> NoCreds]
    /\ IF extract_domain(u) # None
       THEN /\ cache' = cache_remove(cache, extract_domain(u))
            /\ issued' = keep_issued(cache')
            /\ last_set' = [last_set EXCEPT ![extract_domain(u)] = NoCreds]
       ELSE UNCHANGED <<cache, issued, last_set>>
    /\ UNCHANGED <<now, config, taskVars, getResult>>

NextManagerCache ==
    \/ \E t \in Tasks, u \in Urls, r \in Responses : Handle(t, u, r)
    \/ \E t \in Tasks : \E o \in handler_handle(config.handler, now) : HandlerReturn(t, o)
    \/ \E t \in Tasks : Store(t)
    \/ \E t \in Tasks : Return(t)
    \/ \E u \in Urls : GetCachedCredentials(u)
    \/ \E u \in Urls : ClearCachedCredentials(u)
    \/ CacheCleanupExpired
    \/ Tick

\* The manager under its default configuration, called with every URL --
\* with and without a host -- through handle, get_cached_credentials and
\* clear_cached_credentials, while entries expire and are cleaned up.
SpecManagerCache == InitCache /\ [][NextManagerCache]_vars

\* ---- detection alone ------------------------------------------------------

\* config.detectors: every list of up to two detectors of three kinds, a
\* kind possibly twice
DetectorLists ==
    {<< >>}
    \cup {<<a>> : a \in DetectorKinds \cup {"Custom"}}
    \cup {<<a, b>> : a \in DetectorKinds \cup {"Custom"}, b \in DetectorKinds \cup {"Custom"}}

\* responses on which any of the three kinds may report
DetectResponses == SUBSET (DetectorKinds \cup {"Custom"})

InitManagerDetect ==
    /\ \E e \in BOOLEAN, ds \in DetectorLists :
          config = [default_cloudflare_config EXCEPT !.enabled = e, !.detectors = ds]
    /\ InitManager

NextManagerDetect ==
    \/ \E t \in Tasks, r \in DetectResponses : Detect(t, r)
    \/ \E t \in Tasks : Return(t)

\* ChallengeManager::detect called on any response, under every list of
\* detectors.
SpecManagerDetect == InitManagerDetect /\ [][NextManagerDetect]_vars

\* ---- the extraction run -------------------------------------------------

InitExtract ==
    /\ config = default_cloudflare_config
    /\ InitManagerVars
    /\ fe \in FieldExtractors
    /\ input \in Inputs
    /\ out = NoOut
    /\ InitLater

\* ExtractEngine::extract_field(extractor, input, ..) runs and returns
ExtractField ==
    /\ out = NoOut
    /\ out' = extract_field(fe, input)
    /\ UNCHANGED <<fe, input>>
    /\ UNCHANGED <<now, cache, config, taskVars, issued, last_set, getResult, lookup>>
    /\ UNCHANGED laterVars

NextExtract == ExtractField

SpecExtract == InitExtract /\ [][NextExtract]_vars

\* ========================================================================
\* Part 3: HTTP client (http/client.rs)
\* ========================================================================

managerVars == <<now, cache, config, taskVars, issued, last_set, getResult, lookup>>

\* the three parts above at rest
InitEarlier ==
    /\ config = default_cloudflare_config
    /\ InitManagerVars
    /\ fe = IdleExtractor /\ input = VNull /\ out = NoOut

HttpUrls == {"https://a.test/list", "https://a.test/login"}

\* reqwest errors of send(): the transport failed, no response was read
TransportErrors == {"connect", "timeout"}

\* statuses of the responses a server may give; send() returns Ok for all
Statuses == {200, 503}

\* retry_delay values in milliseconds
Delays == {0, 500}

ClientConfigs ==
    [retry_count : OptionOf(0..MaxRetries), retry_delay : OptionOf(Delays)]

\* self.config.retry_count.unwrap_or(0)
retry_count_or_default(c) ==
    IF c.retry_count = NoneNum THEN 0 ELSE c.retry_count[1]

\* RequestBuilder::try_clone: None exactly for a streaming body
try_clone(r) == IF r.body = "stream" THEN NoRequest ELSE r

HttpOk(st) ==
    [tag |-> "Ok", kind |-> None, status |-> st, retries |-> 0, cause |-> None]

\* RuntimeError::HttpRequest("Failed to clone request")
CloneFailed ==
    [tag |-> "Err", kind |-> "HttpRequest", status |-> 0, retries |-> 0,
     cause |-> "clone"]

\* RuntimeError::HttpRequest("Request failed after {} retries: {}")
RequestFailed(rc, e) ==
    [tag |-> "Err", kind |-> "HttpRequest", status |-> 0, retries |-> rc,
     cause |-> e]

SendOutcomes ==
    {[ok |-> TRUE, status |-> st, error |-> None] : st \in Statuses}
    \cup {[ok |-> FALSE, status |-> 0, error |-> e] : e \in TransportErrors}

FrameHttp ==
    UNCHANGED <<managerVars, extractVars, pagerVars, detectorVars, flowVars, validationVars, mergeVars,
                searchVars,
                retryVars,
                lockVars>>

\* the common tail of get / post / post_form: execute_with_retry is entered
\* with the built request
EnterExecuteWithRetry(r) ==
    /\ http_pc = "idle"
    /\ request' = r
    /\ http_pc' = "loop"
    /\ http_attempt' = 0
    /\ http_last_error' = None
    /\ UNCHANGED <<client_config, sends, sleeps, http_result>>
    /\ FrameHttp

\* HttpClient::get(url)
HttpGet(u) ==
    EnterExecuteWithRetry([method |-> "GET", url |-> u, body |-> "none"])

\* HttpClient::post(url, body)
HttpPost(u) ==
    EnterExecuteWithRetry([method |-> "POST", url |-> u, body |-> "bytes"])

\* HttpClient::post_form(url, form)
HttpPostForm(u) ==
    EnterExecuteWithRetry([method |-> "POST", url |-> u, body |-> "form"])

http_has_next_attempt_extra(a, rc) == a <= rc

\* `for attempt in 0..=retry_count`: another iteration follows attempt a
http_has_next_attempt(a, rc) == a < rc

\* One iteration of the loop of execute_with_retry: the sleep before a
\* retry, try_clone, send and its outcome o.
SendAttempt(o) ==
    /\ http_pc = "loop"
    /\ sleeps' = IF http_attempt > 0 THEN sleeps + 1 ELSE sleeps
    /\ IF try_clone(request) = NoRequest
       THEN /\ http_result' = CloneFailed
            /\ http_pc' = "done"
            /\ UNCHANGED <<sends, http_attempt, http_last_error>>
       ELSE /\ sends' = sends + 1
            /\ IF o.ok
               THEN /\ http_result' = HttpOk(o.status)
                    /\ http_pc' = "done"
                    /\ UNCHANGED <<http_attempt, http_last_error>>
               ELSE /\ http_last_error' = o.error
                    /\ IF http_has_next_attempt(http_attempt,
                                                retry_count_or_default(client_config))
                       THEN /\ http_attempt' = http_attempt + 1
                            /\ http_pc' = "loop"
                            /\ UNCHANGED http_result
                       ELSE /\ http_result' =
                                 RequestFailed(retry_count_or_default(client_config),
                                               o.error)
                            /\ http_pc' = "done"
                            /\ UNCHANGED http_attempt
    /\ UNCHANGED <<client_config, request>>
    /\ FrameHttp

InitHttp ==
    /\ InitEarlier
    /\ client_config \in ClientConfigs
    /\ IdleHttp
    /\ IdlePager
    /\ IdleDetector
    /\ IdleFlow
    /\ IdleValidation
    /\ IdleMerge
    /\ IdleSearch
    /\ IdleRetry
    /\ IdleLock

NextHttp ==
    \/ \E u \in HttpUrls : HttpGet(u)
    \/ \E u \in HttpUrls : HttpPost(u)
    \/ \E u \in HttpUrls : HttpPostForm(u)
    \/ \E o \in SendOutcomes : SendAttempt(o)

\* One logical request of one HttpClient, under every configuration and
\* every sequence of transport outcomes.
SpecHttp == InitHttp /\ [][NextHttp]_vars

\* ========================================================================
\* Part 4: pager (flow/pager.rs)
\* ========================================================================

Keywords == {"kw"}
Cursors == {"c1", "c2"}
Pages == 0..MaxPage

\* `a + b` on u32: past u32::MAX the addition panics (builds with overflow
\* checks) or wraps (builds without)
add_u32(a, b) ==
    IF a + b <= MaxPage
    THEN {[panic |-> FALSE, value |-> a + b]}
    ELSE {[panic |-> TRUE, value |-> 0],
          [panic |-> FALSE, value |-> (a + b) % (MaxPage + 1)]}

\* PagerState::current_page for SearchPagerState
current_page(state) == state.page

\* PagerState::with_page for SearchPagerState: the cursor is cleared
with_page(state, page) ==
    [keyword |-> state.keyword, page |-> page, cursor |-> None]

\* PagerState::to_flow_vars for SearchPagerState; a key that is not
\* inserted maps to None
SearchPagerState_to_flow_vars(state) ==
    [keyword |-> state.keyword, page |-> state.page, cursor |-> state.cursor]

\* Pager::to_flow_vars: the recorded cursor overrides the state's
to_flow_vars(self) ==
    IF self.next_cursor # None
    THEN [SearchPagerState_to_flow_vars(self.state) EXCEPT !.cursor = self.next_cursor]
    ELSE SearchPagerState_to_flow_vars(self.state)

PagerSome(p) == [tag |-> "Some", pager |-> p, err |-> None]
PagerNone == [tag |-> "None", pager |-> NoPager, err |-> None]
PagerOk(p) == [tag |-> "Ok", pager |-> p, err |-> None]
PagerErr(e) == [tag |-> "Err", pager |-> NoPager, err |-> e]
PagerPanic == [tag |-> "Panic", pager |-> NoPager, err |-> "overflow"]

\* the pager built from self with the page advanced by one
advanced(self, nc) ==
    {IF s.panic
     THEN PagerPanic
     ELSE PagerSome([pagination |-> self.pagination,
                     state |-> with_page(self.state, s.value),
                     next_cursor |-> nc])
     : s \in add_u32(current_page(self.state), 1)}

next_page_pager_any(self) == advanced(self, None)

\* Pager::next_page_pager: the set of outcomes the call may have
next_page_pager(self) ==
    IF self.pagination = "Cursor"
    THEN IF self.next_cursor = None
         THEN {PagerNone}
         ELSE advanced(self, self.next_cursor)
    ELSE advanced(self, None)

\* Pager::prev_page_pager
prev_page_pager(self) ==
    IF current_page(self.state) <= 1
    THEN PagerNone
    ELSE PagerSome([pagination |-> self.pagination,
                    state |-> with_page(self.state, current_page(self.state) - 1),
                    next_cursor |-> None])

goto_page_pager_any(self, page) ==
    PagerOk([pagination |-> self.pagination,
             state |-> with_page(self.state, page),
             next_cursor |-> None])

\* Pager::goto_page_pager
goto_page_pager(self, page) ==
    IF self.pagination = "Cursor"
    THEN PagerErr("Pagination")
    ELSE PagerOk([pagination |-> self.pagination,
                  state |-> with_page(self.state, page),
                  next_cursor |-> None])

FramePager ==
    UNCHANGED <<managerVars, extractVars, httpVars, detectorVars, flowVars, validationVars, mergeVars,
                searchVars,
                retryVars,
                lockVars>>

\* the caller keeps the pager a call returned, and its old one otherwise
kept(ret) == IF ret.tag \in {"Some", "Ok"} THEN ret.pager ELSE pager

\* pager.next_page_pager()
PagerNext ==
    /\ \E ret \in next_page_pager(pager) :
          /\ pager_call' = [op |-> "next", arg |-> 0, self |-> pager, ret |-> ret]
          /\ pager' = kept(ret)
          /\ cursor_used' = IF ret.tag = "Some" THEN pager.pagination = "Cursor"
                             ELSE cursor_used
    /\ FramePager

\* pager.prev_page_pager()
PagerPrev ==
    /\ pager_call' = [op |-> "prev", arg |-> 0, self |-> pager,
                      ret |-> prev_page_pager(pager)]
    /\ pager' = kept(prev_page_pager(pager))
    /\ cursor_used' = (cursor_used /\ prev_page_pager(pager).tag # "Some")
    /\ FramePager

\* pager.goto_page_pager(n)
PagerGoto(n) ==
    /\ pager_call' = [op |-> "goto", arg |-> n, self |-> pager,
                      ret |-> goto_page_pager(pager, n)]
    /\ pager' = kept(goto_page_pager(pager, n))
    /\ cursor_used' = (cursor_used /\ goto_page_pager(pager, n).tag # "Ok")
    /\ FramePager

\* pager.set_next_cursor(cursor)
PagerSetNextCursor(c) ==
    /\ pager' = [pager EXCEPT !.next_cursor = c]
    /\ cursor_used' = FALSE
    /\ UNCHANGED pager_call
    /\ FramePager

InitPager ==
    /\ InitEarlier
    /\ client_config = HttpConfig_default /\ IdleHttp
    /\ \E pg \in Paginations : \E k \in Keywords : \E n \in Pages :
          pager = Pager_new(pg, SearchPagerState_new(k, n))
    /\ pager_call = NoPagerCall
    /\ cursor_used = FALSE
    /\ IdleDetector
    /\ IdleFlow
    /\ IdleValidation
    /\ IdleMerge
    /\ IdleSearch
    /\ IdleRetry
    /\ IdleLock

NextPager ==
    \/ PagerNext
    \/ PagerPrev
    \/ \E n \in Pages : PagerGoto(n)
    \/ \E c \in Cursors \cup {None} : PagerSetNextCursor(c)

\* One caller working through pagers of every pagination kind.
SpecPager == InitPager /\ [][NextPager]_vars

\* ========================================================================
\* Part 5: challenge detectors (challenge/detector.rs)
\* ========================================================================

\* ---- strings --------------------------------------------------------------
\* A response body is modelled by the set of marker substrings that occur
\* in it; a header value or URL is a token whose substrings are tabulated.

\* CLOUDFLARE_PATTERNS, in the order of the source
CLOUDFLARE_PATTERNS ==
    << "Just a moment", "Checking your browser", "Please Wait... | Cloudflare",
       "_cf_chl_opt", "cf-please-wait",
       "Attention Required! | Cloudflare", "cf-challenge-running",
       "challenges.cloudflare.com/turnstile", "cf-turnstile",
       "__cf_bm", "cf_clearance" >>

\* CLOUDFLARE_HEADERS
CLOUDFLARE_HEADERS == {"cf-ray", "cf-cache-status", "cf-mitigated"}

\* str::to_lowercase on the strings of the model
to_lowercase(x) ==
    CASE x = "Just a moment" -> "just a moment"
      [] x = "JUST A MOMENT" -> "just a moment"
      [] x = "Checking your browser" -> "checking your browser"
      [] x = "Please Wait... | Cloudflare" -> "please wait... | cloudflare"
      [] x = "Attention Required! | Cloudflare" -> "attention required! | cloudflare"
      [] OTHER -> x

\* the substrings a body may be made of
BodyMarkers == {"JUST A MOMENT", "cf-turnstile", "captcha", "Access denied"}

\* response.body.contains(pattern)
body_contains(body, pattern) == pattern \in body

\* body_lower.contains(&pattern.to_lowercase())
body_lower_contains(body, pattern) ==
    to_lowercase(pattern) \in {to_lowercase(m) : m \in body}

\* the pattern substrings of a header value or URL
Substrings(token) ==
    CASE token = "abc123" -> {"abc", "abc123"}
      [] token = "https://a.test/challenge" -> {"/challenge", "a.test"}
      [] token = "https://a.test/list" -> {"/list", "a.test"}
      [] token = "(" -> {"("}
      [] OTHER -> {}

\* str::contains on a header value or URL
contains(token, pattern) == pattern \in Substrings(token)

\* Regex::new(pattern).is_ok()
InvalidRegexes == {"("}
is_regex(pattern) == pattern \notin InvalidRegexes

\* Regex::is_match for the literal patterns of the model
is_match(pattern, token) == contains(token, pattern)

\* ---- DetectionResult ------------------------------------------------------

\* DetectionResult::not_detected()
DetectionResult_not_detected ==
    [called |-> TRUE, detected |-> FALSE, challenge_type |-> None,
     extra_info |-> EmptyMap]

\* DetectionResult::detected(challenge_type)
DetectionResult_detected(ct) ==
    [called |-> TRUE, detected |-> TRUE, challenge_type |-> ct,
     extra_info |-> EmptyMap]

\* DetectionResult::with_info(key, value)
with_info(r, key, value) ==
    [r EXCEPT !.extra_info =
        [k \in DOMAIN r.extra_info \cup {key} |->
            IF k = key THEN value ELSE r.extra_info[k]]]

\* ---- detect_cloudflare ----------------------------------------------------

\* the sub-classification by the pattern that hit
pattern_type(pattern) ==
    IF pattern \in {"challenges.cloudflare.com/turnstile", "cf-turnstile"}
    THEN "CloudflareTurnstile"
    ELSE IF pattern = "Attention Required! | Cloudflare"
         THEN "CloudflareUnderAttack"
         ELSE "CloudflareJs"

\* the loop over CLOUDFLARE_PATTERNS: the type of the first pattern that hits
RECURSIVE first_pattern_type(_, _)
first_pattern_type(patterns, body) ==
    IF patterns = << >> THEN None
    ELSE IF body_contains(body, Head(patterns))
            \/ body_lower_contains(body, Head(patterns))
         THEN pattern_type(Head(patterns))
         ELSE first_pattern_type(Tail(patterns), body)

\* the loop over config.extra_patterns
extra_pattern_type(cfg, body) ==
    IF cfg.extra_patterns # NoneVal
       /\ \E i \in DOMAIN cfg.extra_patterns[1] :
             body_contains(body, cfg.extra_patterns[1][i])
    THEN "CloudflareJs"
    ELSE None

detect_cloudflare(cfg, r) ==
    IF r.status_code \notin {403, 503, 429, 200}
    THEN DetectionResult_not_detected
    ELSE LET has_cf_header == \E h \in CLOUDFLARE_HEADERS : h \in DOMAIN r.headers
             by_body == first_pattern_type(CLOUDFLARE_PATTERNS, r.body)
             challenge_type == IF by_body # None THEN by_body
                               ELSE extra_pattern_type(cfg, r.body)
         IN  IF challenge_type # None
             THEN IF "cf-ray" \in DOMAIN r.headers
                  THEN with_info(DetectionResult_detected(challenge_type),
                                 "cf_ray", r.headers["cf-ray"])
                  ELSE DetectionResult_detected(challenge_type)
             ELSE IF has_cf_header /\ r.status_code \in {403, 503}
                  THEN DetectionResult_detected("CloudflareJs")
                  ELSE DetectionResult_not_detected

\* ---- detect_custom --------------------------------------------------------

\* response.headers.get(name).map(..).unwrap_or("")
header_value(r, name) == IF name \in DOMAIN r.headers THEN r.headers[name] ELSE ""

\* one header rule: the pattern as a regex, or as a substring when it is none
header_rule_holds(pattern, value) ==
    IF is_regex(pattern) THEN is_match(pattern, value) ELSE contains(value, pattern)

\* one body pattern: as a substring, or as a regex
body_pattern_holds(pattern, body) ==
    body_contains(body, pattern) \/ (is_regex(pattern) /\ body_contains(body, pattern))

\* the status test of detect_custom: a mismatch rejects only when no other
\* condition is configured
status_rejects(cfg, r) ==
    /\ cfg.status_codes # NoneVal
    /\ r.status_code \notin cfg.status_codes[1]
    /\ cfg.body_patterns = NoneVal
    /\ cfg.headers = NoneVal
    /\ cfg.url_pattern = NoneVal

detect_custom(cfg, r) ==
    IF status_rejects(cfg, r)
    THEN DetectionResult_not_detected
    ELSE IF /\ cfg.headers # NoneVal
            /\ \E name \in DOMAIN cfg.headers[1] :
                  ~header_rule_holds(cfg.headers[1][name], header_value(r, name))
    THEN DetectionResult_not_detected
    ELSE IF /\ cfg.url_pattern # NoneVal
            /\ is_regex(cfg.url_pattern[1])
            /\ ~is_match(cfg.url_pattern[1], r.final_url)
    THEN DetectionResult_not_detected
    ELSE IF /\ cfg.body_patterns # NoneVal
            /\ ~\E i \in DOMAIN cfg.body_patterns[1] :
                  body_pattern_holds(cfg.body_patterns[1][i], r.body)
    THEN DetectionResult_not_detected
    ELSE DetectionResult_detected("Custom")

\* ChallengeDetectorExt::detect for the Cloudflare and Custom variants
ChallengeDetector_detect(d, r) ==
    IF d.kind = "Cloudflare" THEN detect_cloudflare(d, r) ELSE detect_custom(d, r)

\* ---- the run ---------------------------------------------------------------

HeaderValues == {"abc123", "zzz"}
ResponseHeaderNames == {"cf-ray", "x-guard"}
FinalUrls == {"https://a.test/challenge", "https://a.test/list"}
StatusCodes == {200, 403, 404}

HeaderMaps == UNION {[D -> HeaderValues] : D \in SUBSET ResponseHeaderNames}

ResponseContexts ==
    [status_code : StatusCodes, headers : HeaderMaps,
     body : SUBSET BodyMarkers, final_url : FinalUrls]

CloudflareDetectors ==
    [kind : {"Cloudflare"},
     extra_patterns : {NoneVal, Some(<<"captcha">>)},
     status_codes : {NoneVal}, headers : {NoneVal},
     url_pattern : {NoneVal}, body_patterns : {NoneVal}]

CustomDetectors ==
    [kind : {"Custom"},
     extra_patterns : {NoneVal},
     status_codes : {NoneVal, Some({403, 503})},
     headers : {NoneVal, Some([n \in {"x-guard"} |-> "abc"])},
     url_pattern : {NoneVal, Some("/challenge"), Some("(")},
     body_patterns : {NoneVal, Some(<<"captcha">>)}]

FrameDetector ==
    UNCHANGED <<managerVars, extractVars, httpVars, pagerVars, flowVars, validationVars, mergeVars,
                searchVars,
                retryVars,
                lockVars>>

\* detector.detect(&response)
DetectorDetect ==
    /\ ~detection_result.called
    /\ detection_result' = ChallengeDetector_detect(detector, response)
    /\ UNCHANGED <<detector, response>>
    /\ FrameDetector

InitDetector ==
    /\ InitEarlier
    /\ client_config = HttpConfig_default /\ IdleHttp
    /\ IdlePager
    /\ detector \in CloudflareDetectors \cup CustomDetectors
    /\ response \in ResponseContexts
    /\ detection_result = NoDetection
    /\ IdleFlow
    /\ IdleValidation
    /\ IdleMerge
    /\ IdleSearch
    /\ IdleRetry
    /\ IdleLock

NextDetector == DetectorDetect

\* Every detector of the model shown every response of the model.
SpecDetector == InitDetector /\ [][NextDetector]_vars

\* ========================================================================
\* Part 6: flow variables (context/flow.rs, extractor/selector/set_var.rs,
\*         extractor/selector/var.rs)
\* ========================================================================

VarNames == {"token", "page"}

\* values a flow stores with FlowContext::set
FlowValues == {JString("x"), JNumber("1"), JNull}

\* inputs a SetVar step may be run on: the values above as the extractor
\* sees them, and a piece of markup
StepInputs == {from_json(j) : j \in FlowValues} \cup {VHtml("<p>")}

\* FlowContext::set(key, value): Map::insert
FlowContext_set(data, key, value) ==
    [k \in DOMAIN data \cup {key} |-> IF k = key THEN value ELSE data[k]]

\* SetVarExecutor::execute(set_var, input, runtime_context, flow_context):
\* both contexts are shared references; the input is cloned and returned
SetVarExecutor_execute(name, v, data) == [output |-> Ok(v), data |-> data]

\* VarExecutor::execute: context.get(var_name), lifted by from_json
VarExecutor_execute(name, data) ==
    IF name \in DOMAIN data
    THEN Ok(from_json(data[name]))
    ELSE Err("Extraction")

FrameFlow ==
    UNCHANGED <<managerVars, extractVars, httpVars, pagerVars, detectorVars, validationVars,
                mergeVars,
                searchVars,
                retryVars,
                lockVars>>

\* flow_context.set(key, value), as the flows do for their own variables
FlowContextSet(key, value) ==
    /\ flow_data' = FlowContext_set(flow_data, key, value)
    /\ UNCHANGED step_call
    /\ FrameFlow

\* a SetVar step with declared name n runs on input v
ExecSetVar(n, v) ==
    /\ step_call' = [step |-> "SetVar", name |-> n, input |-> v,
                     output |-> SetVarExecutor_execute(n, v, flow_data).output]
    /\ flow_data' = SetVarExecutor_execute(n, v, flow_data).data
    /\ FrameFlow

\* a Var step with name n runs (its input is not read)
ExecVar(n) ==
    /\ step_call' = [step |-> "Var", name |-> n, input |-> VNull,
                     output |-> VarExecutor_execute(n, flow_data)]
    /\ UNCHANGED flow_data
    /\ FrameFlow

InitFlow ==
    /\ InitEarlier
    /\ client_config = HttpConfig_default /\ IdleHttp
    /\ IdlePager
    /\ IdleDetector
    /\ IdleFlow
    /\ IdleValidation
    /\ IdleMerge
    /\ IdleSearch
    /\ IdleRetry
    /\ IdleLock

NextFlow ==
    \/ \E k \in VarNames : \E j \in FlowValues : FlowContextSet(k, j)
    \/ \E n \in VarNames : \E v \in StepInputs : ExecSetVar(n, v)
    \/ \E n \in VarNames : ExecVar(n)

\* One flow context and the SetVar / Var steps run against it.
SpecFlow == InitFlow /\ [][NextFlow]_vars

\* ========================================================================
\* Part 7: rule validation (src/runtime/validation.rs)
\* ========================================================================

\* ---- Step -------------------------------------------------------------------

\* Step::Call(StepCall { component, .. })
StepCall(c) == [type |-> "Call", component |-> c, pipeline |-> << >>]

\* Step::LoopForEach(StepLoopForEach { pipeline, .. })
StepLoopForEach(p) == [type |-> "LoopForEach", component |-> None, pipeline |-> p]

\* Step::Log(..), a step validate_step has no rule for
StepLog == [type |-> "Log", component |-> None, pipeline |-> << >>]

\* CrawlerError::CircularReference { path }: the path before join(" -> ")
CircularReference(cycle_path) ==
    [kind |-> "CircularReference", path |-> cycle_path, component |-> None]

\* CrawlerError::UndefinedComponent { component }
UndefinedComponent(c) ==
    [kind |-> "UndefinedComponent", path |-> << >>, component |-> c]

\* ---- detect_cycle -----------------------------------------------------------

RECURSIVE detect_cycle_marking(_, _, _, _)
RECURSIVE detect_cycle_marking_steps(_, _, _, _)

\* a detect_cycle that leaves a component in `visited` when it returns
detect_cycle_marking(component_name, components, visited, cycle_path) ==
    IF component_name \in visited
    THEN [found |-> TRUE, visited |-> visited,
          path |-> Append(cycle_path, component_name)]
    ELSE LET r == IF component_name \in DOMAIN components
                  THEN detect_cycle_marking_steps(components[component_name], components,
                                                  visited \cup {component_name},
                                                  Append(cycle_path, component_name))
                  ELSE [found |-> FALSE,
                        visited |-> visited \cup {component_name},
                        path |-> Append(cycle_path, component_name)]
         IN  IF r.found
             THEN r
             ELSE [found |-> FALSE,
                   visited |-> r.visited,
                   path |-> SubSeq(r.path, 1, Len(r.path) - 1)]

detect_cycle_marking_steps(steps, components, visited, cycle_path) ==
    IF steps = << >>
    THEN [found |-> FALSE, visited |-> visited, path |-> cycle_path]
    ELSE IF Head(steps).type = "Call"
         THEN LET r == detect_cycle_marking(Head(steps).component, components,
                                            visited, cycle_path)
              IN  IF r.found
                  THEN r
                  ELSE detect_cycle_marking_steps(Tail(steps), components,
                                                  r.visited, r.path)
         ELSE detect_cycle_marking_steps(Tail(steps), components, visited, cycle_path)

RECURSIVE detect_cycle(_, _, _, _)
RECURSIVE detect_cycle_steps(_, _, _, _)

\* RuleValidator::detect_cycle: the return value with the visited set and the
\* path as the call leaves them
detect_cycle(component_name, components, visited, cycle_path) ==
    IF component_name \in visited
    THEN [found |-> TRUE, visited |-> visited,
          path |-> Append(cycle_path, component_name)]
    ELSE LET r == IF component_name \in DOMAIN components
                  THEN detect_cycle_steps(components[component_name], components,
                                          visited \cup {component_name},
                                          Append(cycle_path, component_name))
                  ELSE [found |-> FALSE,
                        visited |-> visited \cup {component_name},
                        path |-> Append(cycle_path, component_name)]
         IN  IF r.found
             THEN r
             ELSE [found |-> FALSE,
                   visited |-> r.visited \ {component_name},
                   path |-> SubSeq(r.path, 1, Len(r.path) - 1)]

\* the loop of detect_cycle over the steps of one pipeline: only the
\* Step::Call steps of the pipeline itself are followed
detect_cycle_steps(steps, components, visited, cycle_path) ==
    IF steps = << >>
    THEN [found |-> FALSE, visited |-> visited, path |-> cycle_path]
    ELSE IF Head(steps).type = "Call"
         THEN LET r == detect_cycle(Head(steps).component, components, visited, cycle_path)
              IN  IF r.found
                  THEN r
                  ELSE detect_cycle_steps(Tail(steps), components, r.visited, r.path)
         ELSE detect_cycle_steps(Tail(steps), components, visited, cycle_path)

\* the components of a rule: rule.components, or none
components_of(r) ==
    IF r.components = NoneVal THEN EmptyMap ELSE r.components[1]

\* RuleValidator::validate_component_cycles: the errors it pushes
validate_component_cycles(r) ==
    {CircularReference(detect_cycle(n, components_of(r), {}, << >>).path) :
        n \in {m \in DOMAIN components_of(r) :
                  detect_cycle(m, components_of(r), {}, << >>).found}}

\* ---- validate_pipeline / validate_step ---------------------------------------

RECURSIVE validate_pipeline(_, _)

\* RuleValidator::validate_step: the errors it pushes for one step
validate_step(step, defined_components) ==
    CASE step.type = "Call" ->
            IF step.component \in defined_components
            THEN {}
            ELSE {UndefinedComponent(step.component)}
      [] step.type = "LoopForEach" ->
            validate_pipeline(step.pipeline, defined_components)
      [] OTHER -> {}

\* RuleValidator::validate_pipeline: the errors it pushes for a pipeline
validate_pipeline(pipeline, defined_components) ==
    UNION {validate_step(pipeline[i], defined_components) : i \in DOMAIN pipeline}

\* RuleValidator::validate_all: the errors collected for a rule
validate_all(r) ==
    LET defined_components == DOMAIN components_of(r)
        flows == {r.detail, r.search}
                 \cup (IF r.login = NoneVal THEN {} ELSE {r.login[1]})
                 \cup (IF r.list = NoneVal THEN {} ELSE {r.list[1]})
    IN  validate_component_cycles(r)
        \cup UNION {validate_pipeline(p, defined_components) : p \in flows}
        \cup UNION {validate_pipeline(components_of(r)[n], defined_components) :
                        n \in DOMAIN components_of(r)}

\* ---- the run ----------------------------------------------------------------

ComponentNames == {"A", "B", "D"}

\* pipelines a component may have; "C" is never defined
ComponentPipelines ==
    { << >>,
      <<StepCall("A")>>,
      <<StepCall("B")>>,
      <<StepCall("D")>>,
      <<StepCall("B"), StepCall("D")>>,
      <<StepLog, StepCall("B"), StepCall("A")>>,
      <<StepLoopForEach(<<StepCall("A")>>)>>,
      <<StepLoopForEach(<<StepCall("B")>>)>>,
      <<StepCall("C")>> }

FlowPipelines == { << >>, <<StepCall("A")>> }

ComponentMaps ==
    UNION {[D -> ComponentPipelines] : D \in SUBSET ComponentNames}

Rules ==
    [components : {NoneVal} \cup {Some(m) : m \in ComponentMaps},
     login : {NoneVal}, list : {NoneVal},
     detail : FlowPipelines, search : {<< >>}]

FrameValidation ==
    UNCHANGED <<managerVars, extractVars, httpVars, pagerVars, detectorVars, flowVars,
                mergeVars,
                searchVars,
                retryVars,
                lockVars>>

\* rule.validate(): RuleValidator::new(rule).validate_all()
Validate ==
    /\ ~validated
    /\ errors' = validate_all(rule)
    /\ validated' = TRUE
    /\ UNCHANGED rule
    /\ FrameValidation

InitValidation ==
    /\ InitEarlier
    /\ client_config = HttpConfig_default /\ IdleHttp
    /\ IdlePager
    /\ IdleDetector
    /\ IdleFlow
    /\ rule \in Rules
    /\ errors = {}
    /\ validated = FALSE
    /\ IdleMerge
    /\ IdleSearch
    /\ IdleRetry
    /\ IdleLock

NextValidation == Validate

\* Every rule of the model validated once.
SpecValidation == InitValidation /\ [][NextValidation]_vars

\* ========================================================================
\* Part 8: layered HTTP configuration (src/http/config.rs, src/config.rs)
\* ========================================================================

\* ---- Option and HashMap -----------------------------------------------------

Option_or_first(a, b) == a

\* a.or(b) / a.or_else(|| b): a when it is Some, b otherwise
Option_or(a, b) == IF a # NoneVal THEN a ELSE b

\* ConfigMerge for Option<T>: other.clone().or_else(|| self.clone())
Option_merge(self, other) == Option_or(other, self)

\* ConfigMerge for HashMap / HashMap::extend: every entry of other inserted
\* into a clone of self
HashMap_merge(self, other) ==
    [k \in DOMAIN self \cup DOMAIN other |->
        IF k \in DOMAIN other THEN other[k] ELSE self[k]]

\* the match on two Option<HashMap>: merged when both are Some
merge_headers(base, overlay) ==
    CASE base = NoneVal /\ overlay = NoneVal -> NoneVal
      [] base # NoneVal /\ overlay = NoneVal -> base
      [] base = NoneVal /\ overlay # NoneVal -> overlay
      [] OTHER -> Some(HashMap_merge(base[1], overlay[1]))

\* ---- http/config.rs ---------------------------------------------------------

\* merge_request_config
merge_request_config(base, override_config) ==
    CASE base = NoneVal /\ override_config = NoneVal -> NoneVal
      [] base # NoneVal /\ override_config = NoneVal -> base
      [] base = NoneVal /\ override_config # NoneVal -> override_config
      [] OTHER ->
            LET b == base[1]
                o == override_config[1]
            IN  Some([method |-> IF o.method # NoneVal THEN o.method ELSE b.method,
                      body |-> IF o.body # NoneVal THEN o.body ELSE b.body,
                      content_type |-> IF o.content_type # NoneVal
                                       THEN o.content_type ELSE b.content_type,
                      headers |-> merge_headers(b.headers, o.headers)])

\* merge_response_config
merge_response_config(base, override_config) ==
    CASE base = NoneVal /\ override_config = NoneVal -> NoneVal
      [] base # NoneVal /\ override_config = NoneVal -> base
      [] base = NoneVal /\ override_config # NoneVal -> override_config
      [] OTHER ->
            LET b == base[1]
                o == override_config[1]
            IN  Some([encoding |-> IF o.encoding # NoneVal THEN o.encoding ELSE b.encoding,
                      content_type |-> IF o.content_type # NoneVal
                                       THEN o.content_type ELSE b.content_type,
                      preprocess |-> IF o.preprocess # NoneVal
                                     THEN o.preprocess ELSE b.preprocess])

\* HttpConfigExt::merge (http/config.rs)
merge(self, other) ==
    [user_agent |-> Option_or(other.user_agent, self.user_agent),
     timeout |-> Option_or(other.timeout, self.timeout),
     proxy |-> Option_or(other.proxy, self.proxy),
     follow_redirects |-> Option_or(other.follow_redirects, self.follow_redirects),
     max_redirects |-> Option_or(other.max_redirects, self.max_redirects),
     connect_timeout |-> Option_or(other.connect_timeout, self.connect_timeout),
     verify_ssl |-> Option_or(other.verify_ssl, self.verify_ssl),
     request_delay |-> Option_or(other.request_delay, self.request_delay),
     max_concurrent |-> Option_or(other.max_concurrent, self.max_concurrent),
     retry_count |-> Option_or(other.retry_count, self.retry_count),
     retry_delay |-> Option_or(other.retry_delay, self.retry_delay),
     request |-> merge_request_config(self.request, other.request),
     response |-> merge_response_config(self.response, other.response)]

\* HttpConfigExt::merge_request
merge_request(self, rq) ==
    [self EXCEPT !.request = merge_request_config(self.request, Some(rq))]

\* ---- config.rs --------------------------------------------------------------

\* HttpConfigExt::merge_with (config.rs), on the HttpConfig that carries its
\* headers itself
merge_with(self, other) ==
    [user_agent |-> Option_merge(self.user_agent, other.user_agent),
     timeout |-> Option_merge(self.timeout, other.timeout),
     proxy |-> Option_merge(self.proxy, other.proxy),
     headers |-> merge_headers(self.headers, other.headers),
     follow_redirects |-> Option_merge(self.follow_redirects, other.follow_redirects),
     max_redirects |-> Option_merge(self.max_redirects, other.max_redirects),
     connect_timeout |-> Option_merge(self.connect_timeout, other.connect_timeout),
     verify_ssl |-> Option_merge(self.verify_ssl, other.verify_ssl),
     request_delay |-> Option_merge(self.request_delay, other.request_delay),
     max_concurrent |-> Option_merge(self.max_concurrent, other.max_concurrent),
     retry_count |-> Option_merge(self.retry_count, other.retry_count),
     retry_delay |-> Option_merge(self.retry_delay, other.retry_delay)]

\* Default::default() of the HttpConfig of config.rs
HttpConfig_headers_none ==
    [user_agent |-> NoneVal, timeout |-> NoneVal, proxy |-> NoneVal,
     headers |-> NoneVal,
     follow_redirects |-> NoneVal, max_redirects |-> NoneVal,
     connect_timeout |-> NoneVal, verify_ssl |-> NoneVal,
     request_delay |-> NoneVal, max_concurrent |-> NoneVal,
     retry_count |-> NoneVal, retry_delay |-> NoneVal]

\* HttpConfigExt::with_defaults
with_defaults ==
    [HttpConfig_headers_none EXCEPT
        !.user_agent = Some("Mozilla/5.0 (compatible; YingJuCrawler/1.0)"),
        !.timeout = Some(30),
        !.follow_redirects = Some(TRUE),
        !.max_redirects = Some(10),
        !.verify_ssl = Some(TRUE)]

\* ---- the run ----------------------------------------------------------------

\* the options of a layer that the run sets
Timeouts == {NoneVal, Some(10), Some(60)}

HeaderOptions ==
    {NoneVal, Some(EmptyMap),
     Some([k \in {"Accept"} |-> "text/html"]),
     Some([k \in {"Accept"} |-> "*/*"]),
     Some([k \in {"Accept", "Referer"} |-> IF k = "Accept" THEN "*/*" ELSE "a.test"])}

RequestConfigs ==
    [method : {NoneVal, Some("Post")}, body : {NoneVal},
     content_type : {NoneVal}, headers : HeaderOptions]

ResponseOptions ==
    {NoneVal,
     Some([encoding |-> Some("gbk"), content_type |-> NoneVal, preprocess |-> NoneVal])}

\* a rule's or a flow's HttpConfig
HttpConfigs ==
    {[HttpConfig_none EXCEPT !.timeout = t, !.request = rq, !.response = rs] :
        t \in Timeouts,
        rq \in {NoneVal} \cup {Some(r) : r \in RequestConfigs},
        rs \in ResponseOptions}

\* the defaults a caller of merge starts from
HttpDefaults ==
    {HttpConfig_none,
     [HttpConfig_none EXCEPT
        !.timeout = Some(30),
        !.request = Some([method |-> Some("Get"), body |-> NoneVal,
                          content_type |-> NoneVal,
                          headers |-> Some([k \in {"Referer"} |-> "b.test"])])]}

\* a rule's or a flow's HttpConfig, of the kind config.rs merges
HttpConfigsWithHeaders ==
    {[HttpConfig_headers_none EXCEPT !.timeout = t, !.verify_ssl = v, !.headers = h] :
        t \in Timeouts, v \in {NoneVal, Some(FALSE)}, h \in HeaderOptions}

\* the layers a configuration is merged from, earliest first
LayerNames == <<"defaults", "rule", "flow">>

\* the layers are HttpConfigs of config.rs
carries_headers(cfg) == "headers" \in DOMAIN cfg

FrameMerge ==
    UNCHANGED <<managerVars, extractVars, httpVars, pagerVars, detectorVars, flowVars,
                validationVars,
                searchVars,
                retryVars,
                lockVars>>

\* effective = effective.merge(&layer): the next layer is taken in
MergeLayer ==
    /\ merge_n < Len(layers)
    /\ ~carries_headers(effective)
    /\ effective' = merge(effective, layers[merge_n + 1])
    /\ merge_n' = merge_n + 1
    /\ UNCHANGED layers
    /\ FrameMerge

\* effective = effective.merge_with(&layer): the next layer is taken in
MergeWithLayer ==
    /\ merge_n < Len(layers)
    /\ carries_headers(effective)
    /\ effective' = merge_with(effective, layers[merge_n + 1])
    /\ merge_n' = merge_n + 1
    /\ UNCHANGED layers
    /\ FrameMerge

\* effective = effective.merge_request(&rq): a step's request configuration is
\* the last layer, one that sets nothing but the request
MergeRequest(rq) ==
    /\ merge_n = Len(layers)
    /\ ~carries_headers(effective)
    /\ Len(layers) = Len(LayerNames)
    /\ effective' = merge_request(effective, rq)
    /\ layers' = Append(layers, [HttpConfig_none EXCEPT !.request = Some(rq)])
    /\ merge_n' = merge_n + 1
    /\ FrameMerge

InitMerge ==
    /\ InitEarlier
    /\ client_config = HttpConfig_default /\ IdleHttp
    /\ IdlePager
    /\ IdleDetector
    /\ IdleFlow
    /\ IdleValidation
    /\ \/ \E d \in HttpDefaults, r \in HttpConfigs, f \in HttpConfigs :
             /\ layers = <<d, r, f>>
             /\ effective = d
       \/ \E r \in HttpConfigsWithHeaders, f \in HttpConfigsWithHeaders :
             /\ layers = <<with_defaults, r, f>>
             /\ effective = with_defaults
    /\ merge_n = 1
    /\ IdleSearch
    /\ IdleRetry
    /\ IdleLock

NextMerge ==
    \/ MergeLayer
    \/ MergeWithLayer
    \/ \E rq \in RequestConfigs : MergeRequest(rq)

\* Defaults, a rule's configuration and a flow's configuration merged in
\* that order, then a step's request configuration.
SpecMerge == InitMerge /\ [][NextMerge]_vars

\* ========================================================================
\* Part 9: search flow (flow/search.rs)
\* ========================================================================

RECURSIVE as_string(_)
\* ExtractValue::as_string: Some(s) as <<s>>, None as << >>
as_string(v) ==
    CASE v.kind = "String" -> Some(v.s)
      [] v.kind = "Json" -> IF v.json.jt = "string" THEN Some(v.json.s) ELSE NoneVal
      [] v.kind = "Html" -> Some(v.s)
      [] v.kind = "Array" -> IF Len(v.items) = 1 THEN as_string(v.items[1]) ELSE NoneVal
      [] OTHER -> NoneVal

\* SearchFlowExecutor::extract_string: extract_field(..).ok().and_then(as_string)
ok_and_then_as_string(r) == IF r.ok THEN as_string(r.value) ELSE NoneVal

extract_string(extractor, v) == ok_and_then_as_string(extract_field(extractor, v))

SearchItem(title, item_url) == [title |-> title, url |-> item_url]

ItemOk(item) == [ok |-> TRUE, item |-> item, err |-> None]
ItemErr(e) == [ok |-> FALSE, item |-> SearchItem("", ""), err |-> e]

\* SearchFlowExecutor::extract_item, with an empty base_url and none of the
\* optional fields configured
item_of(title, item_url) ==
    IF title = NoneVal THEN ItemErr("Extraction")
    ELSE IF item_url = NoneVal THEN ItemErr("Extraction")
    ELSE ItemOk(SearchItem(title[1], item_url[1]))

extract_item(flow, item_html) ==
    item_of(extract_string(flow.title, item_html), extract_string(flow.url, item_html))

\* Ok(item) => items.push(item), Err(e) => eprintln: rest follows
pushed(r, rest) == IF r.ok THEN <<r.item>> \o rest ELSE rest

\* the first failure ends the list
pushed_until_error(r, rest) == IF r.ok THEN <<r.item>> \o rest ELSE << >>

RECURSIVE extract_items_until_error(_, _)
\* a loop over the list that ends at the first item that fails
extract_items_until_error(flow, arr) ==
    IF arr = << >> THEN << >>
    ELSE pushed_until_error(extract_item(flow, Head(arr)),
                            extract_items_until_error(flow, Tail(arr)))

RECURSIVE extract_items(_, _)
\* for item_value in arr { match extract_item(..) { Ok(item) => push, Err(e)
\* => eprintln } }
extract_items(flow, arr) ==
    IF arr = << >> THEN << >>
    ELSE pushed(extract_item(flow, Head(arr)), extract_items(flow, Tail(arr)))

SearchOk(items, has_next) ==
    [tag |-> "Ok", err |-> None, items |-> items, has_next |-> has_next,
     raw_items |-> items]

\* let has_next = !items.is_empty(); Ok(SearchResponse { items, has_next })
SearchOk_of(items) == SearchOk(items, items # << >>)

SearchErr(e) ==
    [tag |-> "Err", err |-> e, items |-> << >>, has_next |-> FALSE, raw_items |-> << >>]

\* SearchFlowExecutor::execute from the request on: page.http is the outcome
\* of the GET, page.list_result what extract_field gave for flow.list
SearchFlowExecutor_execute(flow, page) ==
    IF page.http # "ok" THEN SearchErr("HttpRequest")
    ELSE IF ~page.list_result.ok THEN SearchErr(page.list_result.err)
    ELSE SearchOk_of(
             CASE page.list_result.value.kind = "Array" ->
                     extract_items(flow, page.list_result.value.items)
               [] page.list_result.value.kind = "Html" ->
                     pushed(extract_item(flow, page.list_result.value), << >>)
               [] OTHER -> << >>)

\* ---- the run ----------------------------------------------------------------

MaxItems == 3         \* a list has at most MaxItems elements

TitleExtractors ==
    { [IdleExtractor EXCEPT !.steps = <<StepIndex(0)>>],
      [IdleExtractor EXCEPT !.steps = <<StepIndex(0)>>, !.nullable = TRUE],
      [IdleExtractor EXCEPT !.steps = <<StepIndex(0)>>, !.default = JString("anon")] }

UrlExtractors ==
    { [IdleExtractor EXCEPT !.steps = <<StepIndex(1)>>],
      [IdleExtractor EXCEPT !.steps = <<StepIndex(-1)>>] }

\* has_next extractors: one that yields the page, one that always fails
HasNextExtractors ==
    { IdleExtractor, [IdleExtractor EXCEPT !.steps = <<StepXpath>>] }

\* Option<Pagination>, PageNumber only
SearchPaginations ==
    {NoneVal} \cup
    {Some([type |-> "PageNumber", has_next |-> h]) :
        h \in {NoneVal} \cup {Some(e) : e \in HasNextExtractors}}

SearchFlows ==
    [title : TitleExtractors, url : UrlExtractors, pagination : SearchPaginations]

\* elements of the extracted list: a title and a url, a title only, an
\* empty title, and a piece of HTML
ListElements ==
    { VArray(<<VString("t"), VString("/d/1")>>),
      VArray(<<VString("t2")>>),
      VArray(<<VString(""), VString("/d/3")>>),
      VHtml("<li>") }

\* what the list extraction may return
ListResults ==
    {Ok(VArray(l)) : l \in SeqsUpTo(ListElements, MaxItems)}
    \cup {Ok(VHtml("<li>")), Ok(VNull), Err("Extraction")}

SearchPages ==
    {[http |-> "ok", html |-> VHtml("<ul>"), list_result |-> lr] : lr \in ListResults}
    \cup {[http |-> "error", html |-> VNull, list_result |-> Err(None)]}

FrameSearch ==
    UNCHANGED <<managerVars, extractVars, httpVars, pagerVars, detectorVars, flowVars,
                validationVars, mergeVars,
                retryVars,
                lockVars>>

\* executor.execute(request, context) runs and returns
SearchExecute ==
    /\ search_response = NoSearchResponse
    /\ search_response' = SearchFlowExecutor_execute(search_flow, search_page)
    /\ UNCHANGED <<search_flow, search_page>>
    /\ FrameSearch

InitSearch ==
    /\ InitEarlier
    /\ client_config = HttpConfig_default /\ IdleHttp
    /\ IdlePager
    /\ IdleDetector
    /\ IdleFlow
    /\ IdleValidation
    /\ IdleMerge
    /\ search_flow \in SearchFlows
    /\ search_page \in SearchPages
    /\ search_response = NoSearchResponse
    /\ IdleRetry
    /\ IdleLock

NextSearch == SearchExecute

\* Every search flow of the model run once on every page.
SpecSearch == InitSearch /\ [][NextSearch]_vars

\* ========================================================================
\* Part 10: retry handler (challenge/handler.rs, handle_retry)
\* ========================================================================

MaxDelay == 4         \* delays (u32 milliseconds) are scaled to 0..MaxDelay:
                      \* MaxDelay stands for u32::MAX, where the cast saturates

\* A response body is modelled by the set of marker strings it contains.
PATTERNS == {"Just a moment", "Checking your browser", "g-recaptcha",
             "h-captcha", "cf-please-wait"}

\* contains_challenge_patterns
contains_challenge_patterns(body) == \E p \in PATTERNS : p \in body

\* config.backoff_factor.unwrap_or(1.5), in tenths
backoff_tenths(h) ==
    IF h.backoff_factor = NoneNum THEN 15 ELSE h.backoff_factor[1]

\* (delay as f32 * backoff) as u32: truncation towards zero, saturating
next_delay(delay, h) ==
    LET d == (delay * backoff_tenths(h)) \div 10
    IN  IF d > MaxDelay THEN MaxDelay ELSE d

\* `for attempt in 0..config.max_retries`: the range holds a
retry_in_range(h, a) == a < h.max_retries

\* what one poll can give: send() fails, reading the body fails, or a
\* response with a status and a body
PollOutcomes ==
    {[kind |-> "send_error", status |-> 0, body |-> {}]}
    \cup {[kind |-> "body_error", status |-> s, body |-> {}] : s \in {200, 503}}
    \cup {[kind |-> "response", status |-> s, body |-> b] :
            s \in {200, 503},
            b \in {{}, {"Just a moment"}, {"welcome", "h-captcha"}, {"welcome"}}}

RetryHandlers ==
    [max_retries : 0..MaxRetries, delay_ms : {0, 1, 2},
     backoff_factor : {NoneNum, Some(20)}]

FrameRetry ==
    UNCHANGED <<managerVars, extractVars, httpVars, pagerVars, detectorVars, flowVars,
                validationVars, mergeVars, searchVars,
                lockVars>>

\* handle_retry is entered: the client is taken from the context and the
\* loop is reached
RetryEnter ==
    /\ FrameRetry
    /\ retry_pc = "idle"
    /\ IF ~ctx_http_client
       THEN /\ retry_pc' = "done"
            /\ retry_result' = HandlerErr("ChallengeFailed")
            /\ UNCHANGED retry_delay
       ELSE /\ retry_delay' = retry_handler.delay_ms
            /\ IF retry_in_range(retry_handler, 0)
               THEN /\ retry_pc' = "polling"
                    /\ UNCHANGED retry_result
               ELSE /\ retry_pc' = "done"
                    /\ retry_result' = HandlerErr("ChallengeMaxAttempts")
    /\ UNCHANGED <<retry_handler, ctx_http_client, retry_attempt, polls, poll_response>>

\* One iteration of the loop: the sleep, the GET and its outcome o.
RetryPoll(o) ==
    /\ FrameRetry
    /\ retry_pc = "polling"
    /\ polls' = polls + 1
    /\ poll_response' = o
    /\ IF o.kind # "response"
       THEN /\ retry_pc' = "done"
            /\ retry_result' = HandlerErr("HttpRequest")
            /\ UNCHANGED <<retry_attempt, retry_delay>>
       ELSE IF o.status = 200 /\ ~contains_challenge_patterns(o.body)
       THEN /\ retry_pc' = "done"
            /\ retry_result' = HandlerOk(ChallengeCredentials_new(now))
            /\ UNCHANGED <<retry_attempt, retry_delay>>
       ELSE /\ retry_delay' = next_delay(retry_delay, retry_handler)
            /\ retry_attempt' = retry_attempt + 1
            /\ IF retry_in_range(retry_handler, retry_attempt + 1)
               THEN /\ retry_pc' = "polling"
                    /\ UNCHANGED retry_result
               ELSE /\ retry_pc' = "done"
                    /\ retry_result' = HandlerErr("ChallengeMaxAttempts")
    /\ UNCHANGED <<retry_handler, ctx_http_client>>

InitRetry ==
    /\ InitEarlier
    /\ client_config = HttpConfig_default /\ IdleHttp
    /\ IdlePager
    /\ IdleDetector
    /\ IdleFlow
    /\ IdleValidation
    /\ IdleMerge
    /\ IdleSearch
    /\ retry_handler \in RetryHandlers
    /\ ctx_http_client \in BOOLEAN
    /\ retry_pc = "idle"
    /\ retry_attempt = 0
    /\ retry_delay = 0
    /\ polls = 0
    /\ poll_response = NoPollResponse
    /\ retry_result = NoRetryResult
    /\ IdleLock

NextRetry ==
    \/ RetryEnter
    \/ \E o \in PollOutcomes : RetryPoll(o)

\* Every retry handler of the model run once, with and without a client.
SpecRetry == InitRetry /\ [][NextRetry]_vars

\* ========================================================================
\* Part 11: the lock of the credential cache under concurrent handle calls
\*          (challenge/manager.rs, challenge/handler.rs)
\* ========================================================================

\* a read guard that outlives get
guard_kept(readers, i) == readers

\* the guard `cache` of get / set goes out of scope when the method returns
guard_dropped(holders, i) == holders \ {i}

\* RwLock::read resolves while no write guard is out
can_read == rw_writer = {}

\* RwLock::write resolves while no guard is out
can_write == rw_readers = {} /\ rw_writer = {}

LockUrls == {"https://a.test/x", "invalid"}
LockResponses == {{}, {"Cloudflare"}}

FrameLock ==
    UNCHANGED <<managerVars, extractVars, httpVars, pagerVars, detectorVars, flowVars,
                validationVars, mergeVars, searchVars, retryVars>>

\* handle(url, response) is called and reaches self.cache.read().await
\* inside credentials_cache.get
InvHandle(i, u, r) ==
    /\ FrameLock
    /\ inv_pc[i] = "idle"
    /\ inv_pc' = [inv_pc EXCEPT ![i] = "get_wait"]
    /\ inv_url' = [inv_url EXCEPT ![i] = u]
    /\ inv_resp' = [inv_resp EXCEPT ![i] = r]
    /\ UNCHANGED <<guarded, rw_readers, rw_writer, inv_attempt, inv_creds, inv_result>>

\* the read lock is granted
GetAcquire(i) ==
    /\ FrameLock
    /\ inv_pc[i] = "get_wait"
    /\ can_read
    /\ rw_readers' = rw_readers \cup {i}
    /\ inv_pc' = [inv_pc EXCEPT ![i] = "get_locked"]
    /\ UNCHANGED <<guarded, rw_writer, inv_url, inv_resp, inv_attempt, inv_creds, inv_result>>

\* get looks the domain up and returns; handle goes on to its first
\* suspension in the handler, or returns
GetReturn(i) ==
    /\ FrameLock
    /\ inv_pc[i] = "get_locked"
    /\ rw_readers' = guard_dropped(rw_readers, i)
    /\ LET cached == cache_get(guarded, cache_key(inv_url[i]), now)
       IN  IF cached # NoCreds /\ ~is_expired(cached, now)
           THEN /\ inv_pc' = [inv_pc EXCEPT ![i] = "done"]
                /\ inv_result' = [inv_result EXCEPT ![i] = "Ok"]
                /\ UNCHANGED inv_attempt
           ELSE IF ~detect(config, inv_resp[i]).detected
           THEN /\ inv_pc' = [inv_pc EXCEPT ![i] = "done"]
                /\ inv_result' = [inv_result EXCEPT ![i] = "Ok"]
                /\ UNCHANGED inv_attempt
           ELSE IF config.max_attempts >= 1
           THEN /\ inv_pc' = [inv_pc EXCEPT ![i] = "handling"]
                /\ inv_attempt' = [inv_attempt EXCEPT ![i] = 1]
                /\ UNCHANGED inv_result
           ELSE /\ inv_pc' = [inv_pc EXCEPT ![i] = "done"]
                /\ inv_result' = [inv_result EXCEPT ![i] = "Err"]
                /\ UNCHANGED inv_attempt
    /\ UNCHANGED <<guarded, rw_writer, inv_url, inv_resp, inv_creds>>

\* The handler invocation of i (WebView session, HTTP polls, sleeps)
\* completes with outcome o; on success handle reaches
\* self.cache.write().await inside credentials_cache.set.
InvHandlerReturn(i, o) ==
    /\ FrameLock
    /\ inv_pc[i] = "handling"
    /\ IF o.ok
       THEN /\ inv_creds' = [inv_creds EXCEPT ![i] =
                                IF config.cache_duration # NoneNum
                                THEN with_ttl(o.creds, config.cache_duration[1])
                                ELSE o.creds]
            /\ inv_pc' = [inv_pc EXCEPT ![i] = "set_wait"]
            /\ UNCHANGED <<inv_attempt, inv_result>>
       ELSE IF has_next_attempt(inv_attempt[i], config.max_attempts)
       THEN /\ inv_attempt' = [inv_attempt EXCEPT ![i] = inv_attempt[i] + 1]
            /\ UNCHANGED <<inv_pc, inv_creds, inv_result>>
       ELSE /\ inv_pc' = [inv_pc EXCEPT ![i] = "done"]
            /\ inv_result' = [inv_result EXCEPT ![i] = "Err"]
            /\ UNCHANGED <<inv_attempt, inv_creds>>
    /\ UNCHANGED <<guarded, rw_readers, rw_writer, inv_url, inv_resp>>

\* the write lock is granted
SetAcquire(i) ==
    /\ FrameLock
    /\ inv_pc[i] = "set_wait"
    /\ can_write
    /\ rw_writer' = rw_writer \cup {i}
    /\ inv_pc' = [inv_pc EXCEPT ![i] = "set_locked"]
    /\ UNCHANGED <<guarded, rw_readers, inv_url, inv_resp, inv_attempt, inv_creds, inv_result>>

\* set inserts and returns; handle returns the credentials
SetReturn(i) ==
    /\ FrameLock
    /\ inv_pc[i] = "set_locked"
    /\ guarded' = cache_set(guarded, cache_key(inv_url[i]), inv_creds[i])
    /\ rw_writer' = guard_dropped(rw_writer, i)
    /\ inv_pc' = [inv_pc EXCEPT ![i] = "done"]
    /\ inv_result' = [inv_result EXCEPT ![i] = "Ok"]
    /\ UNCHANGED <<rw_readers, inv_url, inv_resp, inv_attempt, inv_creds>>

\* the caller takes the result
InvReturn(i) ==
    /\ FrameLock
    /\ inv_pc[i] = "done"
    /\ inv_pc' = [inv_pc EXCEPT ![i] = "idle"]
    /\ inv_url' = [inv_url EXCEPT ![i] = None]
    /\ inv_resp' = [inv_resp EXCEPT ![i] = {}]
    /\ inv_attempt' = [inv_attempt EXCEPT ![i] = 0]
    /\ inv_creds' = [inv_creds EXCEPT ![i] = NoCreds]
    /\ inv_result' = [inv_result EXCEPT ![i] = None]
    /\ UNCHANGED <<guarded, rw_readers, rw_writer>>

InitLock ==
    /\ InitEarlier
    /\ client_config = HttpConfig_default /\ IdleHttp
    /\ IdlePager
    /\ IdleDetector
    /\ IdleFlow
    /\ IdleValidation
    /\ IdleMerge
    /\ IdleSearch
    /\ IdleRetry
    /\ guarded = CredentialsCache_new
    /\ rw_readers = {}
    /\ rw_writer = {}
    /\ inv_pc = [i \in Invocations |-> "idle"]
    /\ inv_url = [i \in Invocations |-> None]
    /\ inv_resp = [i \in Invocations |-> {}]
    /\ inv_attempt = [i \in Invocations |-> 0]
    /\ inv_creds = [i \in Invocations |-> NoCreds]
    /\ inv_result = [i \in Invocations |-> None]

NextLock ==
    \/ \E i \in Invocations, u \in LockUrls, r \in LockResponses : InvHandle(i, u, r)
    \/ \E i \in Invocations : GetAcquire(i)
    \/ \E i \in Invocations : GetReturn(i)
    \/ \E i \in Invocations : \E o \in handler_handle(config.handler, now) :
          InvHandlerReturn(i, o)
    \/ \E i \in Invocations : SetAcquire(i)
    \/ \E i \in Invocations : SetReturn(i)
    \/ \E i \in Invocations : InvReturn(i)

\* Two flow invocations calling handle concurrently on one manager with the
\* default configuration.
SpecLock == InitLock /\ [][NextLock]_vars

\* ========================================================================
\* Properties of the challenge subsystem
\* ========================================================================

\* Credentials c have not outlived their TTL when the clock reads t.
Fresh(c, t) ==
    \/ c.obtained_at = NoneNum
    \/ c.ttl_seconds = NoneNum
    \/ t - c.obtained_at[1] <= c.ttl_seconds[1]

\* Task t makes a step that enters ChallengeManager::handle with url u.
EntersHandle(t) ==
    /\ pc[t] = "idle"
    /\ pc'[t] # "idle"
    /\ \/ op'[t] = "handle"
       \/ op'[t] = "detect_and_handle" /\ path'[t] # "notdetected"

\* C1 (as amended): when a challenge is detected, nothing usable is cached
\* and every one of the max_attempts >= 1 attempts fails, handle fails with
\* exactly the error the last attempt raised; with max_attempts = 0 it fails
\* with ChallengeMaxAttempts.
C1_ExhaustionReturnsLastError ==
    \A t \in Tasks :
        (pc[t] = "done" /\ path[t] = "exhausted") =>
            /\ result[t].tag = "Err"
            /\ finished[t] = config.max_attempts
            /\ IF config.max_attempts >= 1
               THEN lastOutcome[t] # "ok" /\ result[t].err = lastOutcome[t]
               ELSE result[t].err = "ChallengeMaxAttempts"

\* C1 witness: two attempts failed, the last one with ChallengeFailed, and
\* the call returned.
C1_Witness ==
    \E t \in Tasks :
        /\ pc[t] = "done" /\ path[t] = "exhausted"
        /\ config.max_attempts = 2
        /\ finished[t] = 2
        /\ lastOutcome[t] = "ChallengeFailed"
        /\ result[t].tag = "Err"

\* C1 as stated: exhaustion with max_attempts >= 1 always yields
\* ChallengeMaxAttempts.
C1_Original ==
    \A t \in Tasks :
        (pc[t] = "done" /\ path[t] = "exhausted" /\ config.max_attempts >= 1) =>
            (result[t].tag = "Err" /\ result[t].err = "ChallengeMaxAttempts")

\* C3: a handle call that finds non-expired credentials cached for the
\* host of its URL returns exactly those credentials at once, without a
\* single handler invocation.
C3_CachedCredentialsSkipHandler ==
    [][\A t \in Tasks :
         (EntersHandle(t)
            /\ cache[cache_key(url'[t])] # NoCreds
            /\ Fresh(cache[cache_key(url'[t])], now)) =>
              /\ pc'[t] = "done"
              /\ result'[t].tag \in {"Ok", "OkSome"}
              /\ result'[t].creds = cache[cache_key(url'[t])]
              /\ calls'[t] = 0
              /\ finished'[t] = 0]_vars

\* C3 witness: a call on a response that shows a challenge was answered
\* from the cache.
C3_Witness ==
    \E t \in Tasks :
        /\ pc[t] = "done" /\ path[t] = "cache" /\ op[t] = "handle"
        /\ config.enabled /\ resp[t] # {}
        /\ result[t].creds.data \in CredIds
        /\ calls[t] = 0

\* C4: when the handler succeeds and cache_duration is d, handle stores
\* the credentials under the URL's host with TTL d and returns them; a
\* later handle call for that host made no more than d seconds after the
\* credentials were obtained returns the same payload without invoking
\* the handler.
C4_SuccessIsCachedWithTtl ==
    [][\A t \in Tasks :
         /\ (pc[t] = "storing" /\ pc'[t] = "done" /\ config.cache_duration # NoneNum) =>
              /\ cache'[cache_key(url[t])].ttl_seconds = config.cache_duration
              /\ cache'[cache_key(url[t])].data = creds[t].data
              /\ cache'[cache_key(url[t])].obtained_at = creds[t].obtained_at
              /\ result'[t].tag \in {"Ok", "OkSome"}
              /\ result'[t].creds = creds[t]
         /\ (EntersHandle(t)
               /\ config.cache_duration # NoneNum
               /\ issued[cache_key(url'[t])] # NoCreds
               /\ now - issued[cache_key(url'[t])].obtained_at[1]
                    <= config.cache_duration[1]) =>
              /\ pc'[t] = "done"
              /\ result'[t].tag \in {"Ok", "OkSome"}
              /\ result'[t].creds.data = issued[cache_key(url'[t])].data
              /\ calls'[t] = 0]_vars

\* C4 witness: with cache_duration = 1, a call made one second after the
\* credentials were obtained was answered from the cache with the payload
\* the first call returned.
C4_Witness ==
    \E t \in Tasks :
        /\ pc[t] = "done" /\ path[t] = "cache"
        /\ config.cache_duration = Some(1)
        /\ issued[cache_key(url[t])] # NoCreds
        /\ result[t].creds.data = issued[cache_key(url[t])].data
        /\ result[t].creds.ttl_seconds = Some(1)
        /\ now = issued[cache_key(url[t])].obtained_at[1] + 1

\* C5: one handle call invokes the handler at most max_attempts times, one
\* invocation at a time, and never again after an invocation succeeded.
C5_AttemptsBounded ==
    [][\A t \in Tasks :
         /\ calls'[t] <= config.max_attempts
         /\ calls'[t] - finished'[t] = (IF pc'[t] = "handling" THEN 1 ELSE 0)
         /\ calls'[t] > calls[t] =>
                /\ calls'[t] = calls[t] + 1
                /\ lastOutcome[t] # "ok"
                /\ lastOutcome'[t] # "ok"]_vars

\* C5 witness: the second of two allowed attempts succeeded after the
\* first failed.
C5_Witness ==
    \E t \in Tasks :
        /\ pc[t] = "done" /\ path[t] = "handler"
        /\ config.max_attempts = 2
        /\ calls[t] = 2
        /\ finished[t] = 2 /\ lastOutcome[t] = "ok"

\* C6: whatever get, set, remove and cleanup_expired did before, get never
\* hands out credentials whose TTL has elapsed; an expired entry that is
\* still stored is answered with None like a missing one.
C6_GetNeverReturnsExpired ==
    [][\A d \in Domains :
         (getResult' # getResult /\ getResult'.domain = d) =>
            /\ getResult'.value # NoCreds =>
                  (getResult'.value = cache[d] /\ Fresh(cache[d], now))
            /\ (cache[d] = NoCreds \/ ~Fresh(cache[d], now)) =>
                  getResult'.value = NoCreds]_vars

\* C6 witness: get answered None for a domain whose expired entry is still
\* stored.
C6_Witness ==
    /\ getResult.domain \in Domains
    /\ getResult.value = NoCreds
    /\ cache[getResult.domain] # NoCreds
    /\ ~Fresh(cache[getResult.domain], now)

\* C7: with enabled = false, detect reports not-detected and
\* detect_and_handle returns None for every response.
C7_DisabledDetectsNothing ==
    ~config.enabled =>
        \A t \in Tasks :
            pc[t] = "done" =>
                /\ op[t] = "detect" => result[t] = RetDetection(not_detected)
                /\ op[t] = "detect_and_handle" =>
                       (result[t] = RetNone /\ calls[t] = 0)

\* C7 witness: detect_and_handle returned None on a response that matches
\* every configured detector while the configuration is disabled.
C7_Witness ==
    \E t \in Tasks :
        /\ ~config.enabled
        /\ pc[t] = "done" /\ op[t] = "detect_and_handle"
        /\ \A i \in 1..Len(config.detectors) : config.detectors[i] \in resp[t]
        /\ result[t] = RetNone

\* ========================================================================
\* Properties of the field extractor driver
\* ========================================================================

\* the fallback pipelines of the extractor under test, in declared order
Fallbacks == IF fe.fallback = NoneNum THEN << >> ELSE fe.fallback[1]

\* what the primary pipeline and the i-th fallback yield on the original input
PrimaryRun == execute_steps(fe.steps, input)
FallbackRun(i) == execute_steps(Fallbacks[i], input)

Good(r) == r.ok /\ ~is_empty(r.value)

\* the driver goes past the primary pipeline
Consults == ~PrimaryRun.ok \/ (is_empty(PrimaryRun.value) /\ ~fe.nullable)

\* the first fallback that yields a non-empty value on the original input
FirstGood ==
    {i \in 1..Len(Fallbacks) : Good(FallbackRun(i)) /\ \A j \in 1..(i - 1) : ~Good(FallbackRun(j))}

\* C2 as stated: with nullable = false, extract_field returns an error or a
\* non-empty value, whichever of primary, fallback or default supplied it.
C2_Original ==
    (out # NoOut /\ ~fe.nullable /\ out.ok) => ~is_empty(out.value)

\* C8: fallbacks run on the original input in declared order; the value of
\* the first one that yields a non-empty result is returned and no later
\* fallback is consulted.
C8_FirstFallbackOnOriginalInput ==
    out # NoOut =>
        /\ out.source = "fallback" =>
              /\ Consults
              /\ out.consulted \in FirstGood
              /\ out.ok
              /\ out.value = FallbackRun(out.consulted).value
        /\ (Consults /\ FirstGood # {}) => out.source = "fallback"
        /\ (Consults /\ FirstGood = {}) => out.consulted = Len(Fallbacks)
        /\ ~Consults => (out.consulted = 0 /\ out.source = "primary")

\* C8 witness: the primary pipeline ran at least one step and produced
\* nothing, the first of two fallbacks supplied the result, and the second
\* one, which would have supplied a different value, was not consulted.
C8_Witness ==
    /\ out # NoOut /\ out.source = "fallback"
    /\ Len(fe.steps) >= 1
    /\ Len(Fallbacks) = 2 /\ out.consulted = 1
    /\ Good(FallbackRun(2))
    /\ FallbackRun(2).value # out.value

\* C9: an error raised by the primary pipeline or by a consulted fallback
\* does not reach the caller when a later fallback yields a non-empty
\* value or a default is set; the result is that fallback's value, else
\* the lifted default.
C9_ErrorsFollowCascade ==
    LET raised ==
            \/ ~PrimaryRun.ok
            \/ /\ Consults
               /\ \E i \in 1..Len(Fallbacks) :
                      ~FallbackRun(i).ok /\ \A k \in FirstGood : i < k
    IN  (out # NoOut /\ raised /\ (FirstGood # {} \/ fe.default # NoDefault)) =>
            /\ out.ok
            /\ \A k \in FirstGood : out.value = FallbackRun(k).value
            /\ FirstGood = {} => out.value = from_json(fe.default)

\* C9 witness: the primary pipeline and the only fallback both raised an
\* error and the default was returned.
C9_Witness ==
    /\ out # NoOut
    /\ ~PrimaryRun.ok
    /\ Len(Fallbacks) = 1 /\ ~FallbackRun(1).ok
    /\ out.ok /\ out.source = "default"
    /\ out.value = VString("anon")

\* C10 (as amended): with nullable = false, no default and no pipeline
\* producing a value, extract_field fails; the error is Extraction when
\* the primary pipeline ended with an empty value and the primary
\* pipeline's own error when it ended with an error.
C10_NoValueFails ==
    (out # NoOut /\ ~fe.nullable /\ fe.default = NoDefault
       /\ ~Good(PrimaryRun) /\ FirstGood = {}) =>
        /\ ~out.ok
        /\ out.err = (IF PrimaryRun.ok THEN "Extraction" ELSE PrimaryRun.err)

\* C10 witness: a script step failed in the primary pipeline, two fallbacks
\* produced nothing, and the script error was returned.
C10_Witness ==
    /\ out # NoOut /\ ~fe.nullable /\ fe.default = NoDefault
    /\ ~PrimaryRun.ok /\ PrimaryRun.err = "ScriptRuntime"
    /\ Len(Fallbacks) = 2 /\ out.consulted = 2
    /\ ~out.ok /\ out.err = "ScriptRuntime"

\* C10 as stated: the failure is always of kind Extraction.
C10_Original ==
    (out # NoOut /\ ~fe.nullable /\ fe.default = NoDefault
       /\ ~Good(PrimaryRun) /\ FirstGood = {}) =>
        (~out.ok /\ out.err = "Extraction")

\* ========================================================================
\* Properties of the HTTP client
\* ========================================================================

\* sends allowed by the configuration: the first one and retry_count retries
MaxSends == retry_count_or_default(client_config) + 1

\* C11 (as the code has it): one logical request makes at most
\* retry_count + 1 send attempts -- the first send and retry_count retries;
\* between attempts the number of sends equals the loop variable; the call
\* returns Ok on the first successful send, and otherwise, after exactly
\* retry_count + 1 failed sends, an HttpRequest error naming retry_count and
\* the last transport error.
C11_SendsBoundedByRetries ==
    /\ sends <= MaxSends
    /\ http_pc = "loop" => sends = http_attempt /\ http_attempt < MaxSends
    /\ http_pc = "done" =>
          \/ http_result.tag = "Ok" /\ sends >= 1
          \/ /\ http_result = RequestFailed(retry_count_or_default(client_config),
                                            http_last_error)
             /\ http_last_error \in TransportErrors
             /\ sends = MaxSends

\* a request that failed on every attempt although retries were configured
C11_Witness ==
    /\ http_pc = "done"
    /\ http_result.tag = "Err"
    /\ http_result.kind = "HttpRequest"
    /\ retry_count_or_default(client_config) >= 1
    /\ sends = retry_count_or_default(client_config) + 1

\* C11 as stated: at most retry_count send attempts in total.
C11_Original == sends <= retry_count_or_default(client_config)

\* C12 as stated: a POST, which the client has no means to mark as
\* retryable, is sent at most once.
C12_Original == request.method = "POST" => sends <= 1

\* ========================================================================
\* Properties of the pager
\* ========================================================================

\* the latest call was operation o on a pager of pagination kind k
Called(o, k) == pager_call.op = o /\ pager_call.self.pagination = k

\* C13: under Cursor pagination next_page_pager yields no pager whenever no
\* next cursor has been recorded on the pager it is called on.
C13_CursorNextNeedsCursor ==
    (Called("next", "Cursor") /\ pager_call.self.next_cursor = None) =>
        pager_call.ret = PagerNone

\* next was refused on a Cursor pager that had moved before: its page is
\* past the first one and the cursor it travelled with was cleared again
C13_Witness ==
    /\ Called("next", "Cursor")
    /\ pager_call.self.next_cursor = None
    /\ pager_call.self.state.page > 1
    /\ pager_call.ret.tag = "None"

\* C14: under Cursor pagination goto_page_pager(n) fails with a Pagination
\* error for every page n and every pager state, with or without a recorded
\* cursor, and produces no pager.
C14_CursorGotoFails ==
    Called("goto", "Cursor") =>
        /\ pager_call.ret = PagerErr("Pagination")
        /\ pager_call.ret.pager = NoPager

\* goto was refused on a Cursor pager that holds a recorded cursor
C14_Witness ==
    /\ Called("goto", "Cursor")
    /\ pager_call.self.next_cursor \in Cursors
    /\ pager_call.arg > 1
    /\ pager_call.ret.tag = "Err"

\* C15 as stated: under page-number pagination every next yields a pager
\* on the previous page plus one, and goto(n) yields a pager on page n.
C15_Original ==
    /\ Called("next", "PageNumber") =>
          /\ pager_call.ret.tag = "Some"
          /\ pager_call.ret.pager.state.page = pager_call.self.state.page + 1
    /\ Called("goto", "PageNumber") =>
          /\ pager_call.ret.tag = "Ok"
          /\ pager_call.ret.pager.state.page = pager_call.arg

\* ========================================================================
\* Properties of the challenge detectors
\* ========================================================================

\* the detector of kind k has answered
Detected(k) == detection_result.called /\ detector.kind = k

\* C16 as stated: a 403 response carrying a cf-ray header is detected by the
\* Cloudflare detector with kind CloudflareJs and cf_ray (the header's
\* value) among the extras, whatever the body.
C16_Original ==
    (/\ Detected("Cloudflare")
     /\ response.status_code = 403
     /\ "cf-ray" \in DOMAIN response.headers) =>
        /\ detection_result.detected
        /\ detection_result.challenge_type = "CloudflareJs"
        /\ "cf_ray" \in DOMAIN detection_result.extra_info
        /\ detection_result.extra_info["cf_ray"] = response.headers["cf-ray"]

\* the conditions a Custom detector configures, each tested on the response
StatusHolds ==
    detector.status_codes = NoneVal
    \/ response.status_code \in detector.status_codes[1]
HeadersHold ==
    detector.headers = NoneVal
    \/ \A name \in DOMAIN detector.headers[1] :
          header_rule_holds(detector.headers[1][name], header_value(response, name))
UrlHolds ==
    detector.url_pattern = NoneVal
    \/ (is_regex(detector.url_pattern[1])
        /\ is_match(detector.url_pattern[1], response.final_url))
BodyHolds ==
    detector.body_patterns = NoneVal
    \/ \E i \in DOMAIN detector.body_patterns[1] :
          body_pattern_holds(detector.body_patterns[1][i], response.body)

\* C17 as stated: the Custom detector reports a challenge only if every
\* configured condition holds at once.
C17_Original ==
    (Detected("Custom") /\ detection_result.detected) =>
        (StatusHolds /\ HeadersHold /\ UrlHolds /\ BodyHolds)

\* ========================================================================
\* Properties of the flow variables
\* ========================================================================

\* C18 as stated: after a SetVar step with declared name n has run on input
\* v, the flow context maps n to v and the step's output is v unchanged.
C18_Original ==
    step_call.step = "SetVar" =>
        /\ step_call.output = Ok(step_call.input)
        /\ step_call.name \in DOMAIN flow_data
        /\ from_json(flow_data[step_call.name]) = step_call.input

\* ========================================================================
\* Properties of rule validation
\* ========================================================================

RECURSIVE CallsIn(_)
\* the components a pipeline calls, at any depth
CallsIn(pipeline) ==
    UNION {IF pipeline[i].type = "Call" THEN {pipeline[i].component}
           ELSE CallsIn(pipeline[i].pipeline) : i \in DOMAIN pipeline}

\* the call graph of the rule's components
CallEdge(a, b) ==
    /\ a \in DOMAIN components_of(rule)
    /\ b \in DOMAIN components_of(rule)
    /\ b \in CallsIn(components_of(rule)[a])

RECURSIVE ReachableIn(_, _, _)
\* b is reached from a by one to k calls
ReachableIn(a, b, k) ==
    /\ k > 0
    /\ \/ CallEdge(a, b)
       \/ \E c \in DOMAIN components_of(rule) :
             CallEdge(a, c) /\ ReachableIn(c, b, k - 1)

\* the components that lie on a cycle of the call graph
OnCycle ==
    {a \in DOMAIN components_of(rule) :
        ReachableIn(a, a, Cardinality(DOMAIN components_of(rule)))}

\* C19 as stated: validating a rule whose component call graph contains a
\* cycle fails with a CircularReference whose path lists components along
\* the cycle.
C19_Original ==
    (validated /\ OnCycle # {}) =>
        \E e \in errors :
            /\ e.kind = "CircularReference"
            /\ \E i \in DOMAIN e.path : e.path[i] \in OnCycle

\* ========================================================================
\* Properties of the layered HTTP configuration
\* ========================================================================

\* the options of a configuration: its own plain ones and, where it has
\* them, those of its request and response sections
ConfigOptions(cfg) ==
    {[section |-> "http", name |-> f] :
        f \in DOMAIN cfg \ {"headers", "request", "response"}}
    \cup (IF "request" \in DOMAIN cfg
          THEN {[section |-> "request", name |-> f] :
                    f \in {"method", "body", "content_type"}}
          ELSE {})
    \cup (IF "response" \in DOMAIN cfg
          THEN {[section |-> "response", name |-> f] :
                    f \in {"encoding", "content_type", "preprocess"}}
          ELSE {})

\* the value a configuration gives an option; an absent section gives None
OptionValue(cfg, o) ==
    IF o.section = "http"
    THEN cfg[o.name]
    ELSE IF cfg[o.section] = NoneVal THEN NoneVal ELSE cfg[o.section][1][o.name]

\* the header map a configuration defines, if any
HeadersOf(cfg) ==
    IF carries_headers(cfg)
    THEN cfg.headers
    ELSE IF cfg.request = NoneVal THEN NoneVal ELSE cfg.request[1].headers

\* its entries; none when it defines no map
HeaderMap(cfg) ==
    IF HeadersOf(cfg) = NoneVal THEN EmptyMap ELSE HeadersOf(cfg)[1]

\* the latest of the layers taken in that satisfies P; 0 when none does
Latest(P(_)) ==
    LET S == {i \in 1..merge_n : P(layers[i])}
    IN  IF S = {} THEN 0 ELSE CHOOSE i \in S : \A j \in S : j <= i

\* C20: the merged configuration gives every option the value of the latest
\* layer taken in that has it Some, and None only when no layer has it; its
\* header map has the keys of all layers, each with the value of the latest
\* layer that defines the key.
C20_LayeredMerge ==
    /\ \A o \in ConfigOptions(effective) :
          LET IsSome(l) == OptionValue(l, o) # NoneVal
          IN  OptionValue(effective, o) =
                  IF Latest(IsSome) = 0 THEN NoneVal
                  ELSE OptionValue(layers[Latest(IsSome)], o)
    /\ DOMAIN HeaderMap(effective) =
          UNION {DOMAIN HeaderMap(layers[i]) : i \in 1..merge_n}
    /\ \A k \in DOMAIN HeaderMap(effective) :
          LET Defines(l) == k \in DOMAIN HeaderMap(l)
          IN  HeaderMap(effective)[k] = HeaderMap(layers[Latest(Defines)])[k]

\* all three layers merged: the flow leaves an option None that the rule
\* sets, both define the header Accept differently, and only an earlier
\* layer defines Referer
C20_Witness ==
    /\ merge_n = Len(LayerNames)
    /\ layers[2].timeout # NoneVal
    /\ layers[3].timeout = NoneVal
    /\ "Accept" \in DOMAIN HeaderMap(layers[2]) \cap DOMAIN HeaderMap(layers[3])
    /\ HeaderMap(layers[2])["Accept"] # HeaderMap(layers[3])["Accept"]
    /\ "Referer" \in (DOMAIN HeaderMap(layers[1]) \cup DOMAIN HeaderMap(layers[2]))
                     \ DOMAIN HeaderMap(layers[3])

\* ========================================================================
\* Properties of ChallengeManager::detect
\* ========================================================================

\* the positions of the configured detectors that report on response r
Hits(r) == {i \in DOMAIN config.detectors : config.detectors[i] \in r}

\* the first of them
FirstHit(r) == CHOOSE i \in Hits(r) : \A j \in Hits(r) : i <= j

\* C21: an enabled manager's detect returns the report (kind and extras)
\* of the first configured detector, in declared order, that reports a
\* challenge on the response, and not-detected only when none reports one.
C21_FirstDetectorWins ==
    \A t \in Tasks :
        (pc[t] = "done" /\ op[t] = "detect" /\ config.enabled) =>
            /\ result[t].tag = "Detection"
            /\ IF Hits(resp[t]) = {}
               THEN result[t].detection = not_detected
               ELSE /\ result[t].detection.detected
                    /\ result[t].detection.challenge_type =
                           config.detectors[FirstHit(resp[t])]
                    /\ result[t].detection.extra_info =
                           detector_extra(config.detectors[FirstHit(resp[t])])

\* detect has returned on a response on which two configured detectors of
\* different kinds report
C21_Witness ==
    \E t \in Tasks :
        /\ pc[t] = "done" /\ op[t] = "detect" /\ config.enabled
        /\ Cardinality(Hits(resp[t])) = 2
        /\ config.detectors[1] # config.detectors[2]

\* ========================================================================
\* Properties of the search flow
\* ========================================================================

\* the list the run extracted, when it got that far and the list is an array
ExtractedList ==
    IF search_page.http = "ok" /\ search_page.list_result.ok
       /\ search_page.list_result.value.kind = "Array"
    THEN search_page.list_result.value.items
    ELSE << >>

\* item extraction succeeds on list element e
ItemSucceeds(e) == extract_item(search_flow, e).ok

\* the run has returned after request and list extraction succeeded
SearchReturned ==
    /\ search_response # NoSearchResponse
    /\ search_page.http = "ok"
    /\ search_page.list_result.ok

\* C22: when request and list extraction succeeded the invocation succeeds
\* whatever the items do, and for an array list the items are those of the
\* elements whose item extraction succeeded, in the order of the list.
C22_FailedItemsAreDropped ==
    SearchReturned =>
        /\ search_response.tag = "Ok"
        /\ search_page.list_result.value.kind = "Array" =>
              LET good == SelectSeq(ExtractedList, ItemSucceeds)
              IN  search_response.items =
                      [i \in 1..Len(good) |-> extract_item(search_flow, good[i]).item]

\* the run returned on a list of three elements of which the middle one
\* fails and the other two succeed
C22_Witness ==
    /\ SearchReturned
    /\ Len(ExtractedList) = 3
    /\ ItemSucceeds(ExtractedList[1])
    /\ ~ItemSucceeds(ExtractedList[2])
    /\ ItemSucceeds(ExtractedList[3])
    /\ ExtractedList[1] # ExtractedList[3]

\* the has_next extractor the flow's pagination configures, if any
ConfiguredHasNext ==
    IF search_flow.pagination = NoneVal
    THEN NoneVal
    ELSE search_flow.pagination[1].has_next

\* C23 as stated: with a has_next extractor configured, has_next is that
\* extractor's result on the page; in particular has_next is not true when
\* the extractor yields no value there.
C23_Original ==
    (SearchReturned /\ ConfiguredHasNext # NoneVal) =>
        (search_response.has_next =>
            extract_field(ConfiguredHasNext[1], search_page.html).ok)

\* ---- Properties of CredentialsCache: set followed by get ----------------

\* C24: after set(d, c) and no later set or remove for d, get(d) called
\* while c is not expired returns c itself (credentials, timestamp and TTL
\* as stored), whatever was done to the other domain and whether or not
\* cleanup_expired ran in between.
C24_SetThenGet ==
    [][\A d \in Domains :
         (/\ getResult' # getResult
          /\ getResult'.domain = d
          /\ last_set[d] # NoCreds
          /\ ~is_expired(last_set[d], now)) =>
            getResult'.value = last_set[d]]_vars

\* C24 witness: get returned the credentials with a TTL that were set for
\* its domain, while the other domain holds credentials set for it.
C24_Witness ==
    /\ getResult.domain \in Domains
    /\ getResult.value # NoCreds
    /\ getResult.value.ttl_seconds # NoneNum
    /\ getResult.value = last_set[getResult.domain]
    /\ \E e \in Domains \ {getResult.domain} :
          /\ last_set[e] # NoCreds
          /\ last_set[e] # getResult.value
          /\ cache[e] = last_set[e]

\* ========================================================================
\* Properties of the retry handler
\* ========================================================================

\* C25 as stated: the handler never makes more than max_retries polls; it
\* goes on polling only while the responses match the challenge patterns;
\* and it stops only with success on a response that does not match them or
\* with failure after max_retries polls.
C25_Original ==
    /\ polls <= retry_handler.max_retries
    /\ (retry_pc = "polling" /\ polls > 0) =>
          contains_challenge_patterns(poll_response.body)
    /\ (retry_pc = "done" /\ ctx_http_client) =>
          \/ /\ retry_result.ok
             /\ poll_response.kind = "response"
             /\ ~contains_challenge_patterns(poll_response.body)
          \/ /\ ~retry_result.ok
             /\ polls = retry_handler.max_retries

\* ========================================================================
\* Properties of the manager's use of its cache
\* ========================================================================

\* the step is the end of a successful handle call of task t: the Ok arm
\* stores the credentials and returns
StoresAndReturns(t) ==
    /\ pc[t] = "storing"
    /\ pc'[t] = "done"
    /\ result'[t].tag = "Ok"

\* the step is an eviction: no call of handle moves, entries only vanish
Evicts ==
    /\ taskVars' = taskVars
    /\ \A d \in Domains : cache'[d] = cache[d] \/ cache'[d] = NoCreds

\* C27: the cache changes only in the step that ends a successful handle
\* call -- and then only in the entry of the domain of that call's URL --
\* or in an eviction; every other step of a handle call (no challenge
\* found, served from the cache, a failed attempt, exhaustion) leaves every
\* entry as it was.
C27_OnlySuccessWrites ==
    [][cache' # cache =>
          \/ Evicts
          \/ \E t \in Tasks :
                /\ StoresAndReturns(t)
                /\ \A d \in Domains \ {cache_key(url[t])} : cache'[d] = cache[d]]_vars

\* C27 witness: a handle call has just succeeded and written the entry of
\* its own domain while the other domain keeps an entry written earlier.
C27_Witness ==
    \E t \in Tasks :
        /\ pc[t] = "done" /\ path[t] = "handler"
        /\ cache[cache_key(url[t])] = last_set[cache_key(url[t])]
        /\ cache[cache_key(url[t])] # NoCreds
        /\ \E d \in Domains \ {cache_key(url[t])} :
              /\ cache[d] # NoCreds
              /\ cache[d] # cache[cache_key(url[t])]

\* C29 as stated: get_cached_credentials(u) answers from, and
\* clear_cached_credentials(u) empties, the entry under the key that
\* handle(u) uses, for every URL string u.
C29_Original ==
    [][/\ (lookup' # lookup /\ lookup'.op = "get_cached_credentials") =>
             lookup'.value = cache_get(cache, cache_key(lookup'.url), now)
       /\ (lookup' # lookup /\ lookup'.op = "clear_cached_credentials") =>
             cache'[cache_key(lookup'.url)] = NoCreds]_vars

\* ========================================================================
\* Properties of the lock of the credential cache
\* ========================================================================

HoldsGuard(i) == i \in rw_readers \/ i \in rw_writer

\* C26: an invocation whose handler is running (or that waits for a lock)
\* holds no guard of the cache lock: the read guard of the lookup is gone
\* before handling starts, the write guard is taken only after the handler
\* returned, and guards are held only inside get and set; so while
\* invocations are handling, the lock is free for the others.
C26_NoLockAcrossHandler ==
    /\ \A i \in Invocations :
          /\ inv_pc[i] = "handling" => ~HoldsGuard(i)
          /\ i \in rw_readers => inv_pc[i] = "get_locked"
          /\ i \in rw_writer => inv_pc[i] = "set_locked"
    /\ (\A i \in Invocations : inv_pc[i] \in {"handling", "idle", "done"}) =>
          (can_read /\ can_write)

\* C26 witness: one invocation reads the cache under the read lock while
\* the handler of the other one is running.
C26_Witness ==
    \E i, j \in Invocations :
        /\ inv_pc[i] = "handling"
        /\ inv_pc[j] = "get_locked"
        /\ j \in rw_readers

\* ---- Properties of the pager: use of a recorded cursor ----------------------

\* C28 as stated: under Cursor pagination the pager that next returns
\* carries the recorded cursor in its request variables, and a next on a
\* pager that next returned, with no cursor recorded on it since, yields no
\* pager.
C28_Original ==
    [][(/\ pager_call' # pager_call
        /\ pager_call'.op = "next"
        /\ pager_call'.self.pagination = "Cursor") =>
           /\ pager_call'.ret.tag = "Some" =>
                 to_flow_vars(pager_call'.ret.pager).cursor = pager_call'.self.next_cursor
           /\ cursor_used => pager_call'.ret.tag = "None"]_vars

\* ---- Properties of rule validation: acyclic call graphs ----------------------

\* the components a pipeline calls by its own Step::Call steps
TopCallsIn(pipeline) ==
    {pipeline[i].component : i \in {j \in DOMAIN pipeline : pipeline[j].type = "Call"}}

\* a reaches c directly and through b
Diamond(a, b, c) ==
    /\ CallEdge(a, b) /\ CallEdge(b, c)
    /\ c \in TopCallsIn(components_of(rule)[a])
    /\ b \in TopCallsIn(components_of(rule)[a])
    /\ c \in TopCallsIn(components_of(rule)[b])

\* C30: validating a rule whose component call graph has no cycle reports no
\* CircularReference, also when a component is reached along several call
\* paths.
C30_NoFalseCycle ==
    (validated /\ OnCycle = {}) =>
        \A e \in errors : e.kind # "CircularReference"

\* C30 witness: a validated rule without a cycle in which one component is
\* called by another both directly and through a third.
C30_Witness ==
    /\ validated
    /\ OnCycle = {}
    /\ \E a, b, c \in DOMAIN components_of(rule) :
          /\ a # b /\ b # c /\ a # c
          /\ Diamond(a, b, c)
    /\ \A e \in errors : e.kind # "CircularReference"

====
